---------------------------- MODULE Spec2Model ----------------------------
(***************************************************************************)
(* A model of Spry's text-interpolation subsystem:                         *)
(*   - lib/universal/partial.ts   : partialContent, partialContentCollection*)
(*   - lib/interpolate/unsafe.ts  : unsafeInterpolator, unsafeInterpFactory *)
(*   - capture.ts                 : captureFactory, captureFactorySync      *)
(*                                                                         *)
(* Text is modelled at character level: a string is a sequence of          *)
(* one-character strings, so that scanning, normalisation, glob matching   *)
(* and the `mutated !== source` comparison are computed, not assumed.      *)
(***************************************************************************)
EXTENDS Integers, Sequences, FiniteSets, TLC

VARIABLES
    catalog,    \* partialContentCollection: Map identity -> fragment, in insertion order
    index,      \* partialContentCollection: the injection index (IndexEntry[])
    op,         \* the last collection operation and what it returned
    nOps,       \* number of register calls made so far
    cache,      \* unsafeInterpolator: template -> ctxName -> signature -> renderer
    call,       \* the last interpolate(template, locals, stack) call
    outcome,    \* what that call gave on the engine with useCache = true
    uncached,   \* what the same call gave on an engine with useCache = false
    nCalls,     \* number of interpolate / interpolateUnsafely calls made so far
    prime,      \* interpolateUnsafely: the prime ctx of the call in progress or last made
    frames,     \* the renderers in flight: the top-level one, then one per partial expansion
    result,     \* what interpolateUnsafely returned
    raised,     \* the error raised while compiling or evaluating, if any
    lastPartial, \* the last call of the partial helper and what it returned
    factory,    \* captureFactory / captureFactorySync: which one, and its onCapture
    history,    \* the factory's history: key -> Captured
    tasks,      \* the capture(ctx, op) calls made: where each one stands
    log,        \* the calls of isCapturable, prepareCaptured and onCapture, in order
    unhandled,  \* rejections of promises that nothing awaits
    fsCalls,    \* the files written and the ignore rules registered, in order
    compiled,   \* whether the last interpolate call compiled, hit the cache, or neither
    inflight,   \* interpolate calls whose promise has not been delivered yet
    scanInput,  \* the source last given to splitTemplateIntoParts / compile
    scanParts,  \* the parts splitTemplateIntoParts gave for it
    scanOutcome \* what compiling and running that source gave

registryVars == <<catalog, index, op, nOps>>

cacheVars == <<cache, call, outcome, uncached>>

unsafelyVars == <<prime, frames, result, raised, lastPartial>>

captureVars == <<factory, history, tasks, log, unhandled, fsCalls>>

concurrencyVars == <<compiled, inflight>>

scanVars == <<scanInput, scanParts, scanOutcome>>

vars ==
    <<catalog, index, op, nOps, cache, call, outcome, uncached, nCalls,
      prime, frames, result, raised, lastPartial,
      factory, history, tasks, log, unhandled, fsCalls, compiled, inflight,
      scanInput, scanParts, scanOutcome>>

-----------------------------------------------------------------------------
(* Bounds of the model *)

\* how many register calls a behaviour of the collection makes
MaxRegs == 3

\* how many interpolate calls a behaviour of the engine makes
MaxCalls == 3

\* how many renderers may be in flight at once: beyond it the model stops
\* following an expansion that is still nesting
MaxNest == 12

-----------------------------------------------------------------------------
(* Strings as sequences of characters *)

Min(a, b) == IF a < b THEN a ELSE b

Max(a, b) == IF a > b THEN a ELSE b

\* String.prototype.slice(a, b) for 0 <= a, with b clamped to the length
Slice(s, a, b) == SubSeq(s, a + 1, Min(b, Len(s)))

\* s.slice(a)
SliceFrom(s, a) == SubSeq(s, a + 1, Len(s))

\* s[i] with JavaScript's 0-based index; "undefined" when out of range
At(s, i) == IF i >= 0 /\ i < Len(s) THEN s[i + 1] ELSE "undefined"

RECURSIVE Join(_, _)
\* Array.prototype.join: the strings of `parts` with `sep` between them
Join(parts, sep) ==
    IF Len(parts) = 0 THEN <<>>
    ELSE IF Len(parts) = 1 THEN parts[1]
    ELSE parts[1] \o sep \o Join(Tail(parts), sep)

RECURSIVE Split(_, _)
\* String.prototype.split on the one-character separator `c`
Split(s, c) ==
    IF \A i \in 1..Len(s) : s[i] # c THEN <<s>>
    ELSE LET k == CHOOSE i \in 1..Len(s) :
                      s[i] = c /\ \A j \in 1..(i - 1) : s[j] # c
         IN  <<SubSeq(s, 1, k - 1)>> \o Split(SubSeq(s, k + 1, Len(s)), c)

-----------------------------------------------------------------------------
(* @std/path as used by partial.ts: normalize, isGlob, globToRegExp (posix) *)

RECURSIVE normalizeString(_, _, _)
\* the segments of a path with "", "." dropped and ".." resolved
normalizeString(segs, allowAboveRoot, acc) ==
    IF Len(segs) = 0 THEN acc
    ELSE LET s == Head(segs) IN
         IF s = <<>> \/ s = <<".">> THEN
             normalizeString(Tail(segs), allowAboveRoot, acc)
         ELSE IF s = <<".", ".">> THEN
             IF Len(acc) > 0 /\ acc[Len(acc)] # <<".", ".">> THEN
                 normalizeString(Tail(segs), allowAboveRoot,
                                 SubSeq(acc, 1, Len(acc) - 1))
             ELSE IF allowAboveRoot THEN
                 normalizeString(Tail(segs), allowAboveRoot, Append(acc, s))
             ELSE normalizeString(Tail(segs), allowAboveRoot, acc)
         ELSE normalizeString(Tail(segs), allowAboveRoot, Append(acc, s))

normalize(path) ==
    IF Len(path) = 0 THEN <<".">>
    ELSE LET isAbsolute == path[1] = "/"
             trailingSeparator == path[Len(path)] = "/"
             body == Join(normalizeString(Split(path, "/"), ~isAbsolute, <<>>),
                          <<"/">>)
             p1 == IF Len(body) = 0 /\ ~isAbsolute THEN <<".">> ELSE body
             p2 == IF Len(p1) > 0 /\ trailingSeparator THEN p1 \o <<"/">> ELSE p1
         IN  IF isAbsolute THEN <<"/">> \o p2 ELSE p2

\* isGlob, for patterns built from literal characters, "*" and "?"
isGlob(str) == \E i \in 1..Len(str) : str[i] \in {"*", "?"}

RECURSIVE globSegment(_, _, _)
\* globToRegExp's inner loop over one path segment of the glob, from index i
\* (0-based): the regular expression's tokens and where the segment ends
globSegment(glob, i, acc) ==
    IF ~(i < Len(glob) /\ At(glob, i) # "/") THEN [toks |-> acc.toks, i |-> i,
                                                   endsWithSep |-> acc.endsWithSep]
    ELSE IF At(glob, i) = "?" THEN
        globSegment(glob, i + 1,
            [toks |-> Append(acc.toks, [t |-> "any", c |-> "."]),
             endsWithSep |-> acc.endsWithSep])
    ELSE IF At(glob, i) = "*" THEN
        LET prevChar == At(glob, i - 1)
            last == CHOOSE k \in i..Len(glob) :
                        /\ \A j \in i..k : At(glob, j) = "*"
                        /\ At(glob, k + 1) # "*"
            numStars == last - i + 1
            nextChar == At(glob, last + 1)
        IN  IF /\ numStars = 2
               /\ prevChar \in {"/", "undefined"}
               /\ nextChar \in {"/", "undefined"}
            THEN globSegment(glob, last + 1,
                     [toks |-> Append(acc.toks, [t |-> "globstar", c |-> "*"]),
                      endsWithSep |-> TRUE])
            ELSE globSegment(glob, last + 1,
                     [toks |-> Append(acc.toks, [t |-> "wildcard", c |-> "*"]),
                      endsWithSep |-> acc.endsWithSep])
    ELSE globSegment(glob, i + 1,
            [toks |-> Append(acc.toks, [t |-> "lit", c |-> At(glob, i)]),
             endsWithSep |-> acc.endsWithSep])

RECURSIVE skipSeps(_, _)
skipSeps(glob, i) == IF At(glob, i) = "/" THEN skipSeps(glob, i + 1) ELSE i

RECURSIVE globSegments(_, _, _)
\* globToRegExp's outer loop: one segment and its separator per iteration
globSegments(glob, j, acc) ==
    IF ~(j < Len(glob)) THEN acc
    ELSE LET seg == globSegment(glob, j, [toks |-> <<>>, endsWithSep |-> FALSE])
             sepTok == IF seg.endsWithSep THEN <<>>
                       ELSE IF seg.i < Len(glob) THEN <<[t |-> "sep", c |-> "/"]>>
                       ELSE <<[t |-> "sepMaybe", c |-> "/"]>>
         IN  globSegments(glob, skipSeps(glob, seg.i), acc \o seg.toks \o sepTok)

RECURSIVE stripTrailingSeps(_)
stripTrailingSeps(glob) ==
    IF Len(glob) > 1 /\ glob[Len(glob)] = "/"
    THEN stripTrailingSeps(SubSeq(glob, 1, Len(glob) - 1))
    ELSE glob

\* globToRegExp(glob, {extended: true, globstar: true}): the anchored
\* regular expression, as its sequence of tokens
globToRegExp(glob) == globSegments(stripTrailingSeps(glob), 0, <<>>)

\* how many leading characters of s are not "/" (mode "non") or are "/" (mode "sep")
RunLen(s, isSep) ==
    LET ok(i) == IF isSep THEN s[i] = "/" ELSE s[i] # "/"
    IN  IF \A i \in 1..Len(s) : ok(i) THEN Len(s)
        ELSE (CHOOSE i \in 1..Len(s) : ~ok(i) /\ \A j \in 1..(i - 1) : ok(j)) - 1

RECURSIVE regexTest(_, _)
\* RegExp.prototype.test of the anchored expression `toks` on the string s
regexTest(toks, s) ==
    IF Len(toks) = 0 THEN Len(s) = 0
    ELSE LET tk == Head(toks)
             rest == Tail(toks)
         IN  CASE tk.t = "lit" ->
                    Len(s) > 0 /\ s[1] = tk.c /\ regexTest(rest, Tail(s))
               [] tk.t = "any" ->
                    Len(s) > 0 /\ regexTest(rest, Tail(s))
               [] tk.t = "wildcard" ->       \* [^/]*
                    \E k \in 0..RunLen(s, FALSE) : regexTest(rest, SliceFrom(s, k))
               [] tk.t = "sep" ->            \* /+
                    \E k \in 1..RunLen(s, TRUE) : regexTest(rest, SliceFrom(s, k))
               [] tk.t = "sepMaybe" ->       \* /*
                    \E k \in 0..RunLen(s, TRUE) : regexTest(rest, SliceFrom(s, k))
               [] tk.t = "globstar" ->       \* (?:[^/]*(?:/|$)+)*
                    \/ regexTest(rest, s)
                    \/ \E k \in 0..RunLen(s, FALSE) :
                         LET t == SliceFrom(s, k) IN
                         \/ \E m \in 1..RunLen(t, TRUE) :
                                regexTest(toks, SliceFrom(t, m))
                         \/ k > 0 /\ Len(t) = 0 /\ regexTest(rest, t)

-----------------------------------------------------------------------------
(* JavaScript strings: code units, comparison, sorting *)

\* the characters that occur in the names the model uses, in code-unit order
CodedChars ==
    <<
       "$", "0", "1", "2", "3", "4", "5", "6", "7", "8", "9", "A", "B", "C",
       "D", "E", "F", "G", "H", "I", "J", "K", "L", "M", "N", "O", "P", "Q",
       "R", "S", "T", "U", "V", "W", "X", "Y", "Z", "_", "a", "b", "c", "d",
       "e", "f", "g", "h", "i", "j", "k", "l", "m", "n", "o", "p", "q", "r",
       "s", "t", "u", "v", "w", "x", "y", "z", "|" >>

\* their UTF-16 code units
CodeUnits ==
    <<
       36, 48, 49, 50, 51, 52, 53, 54, 55, 56, 57, 65, 66, 67, 68, 69, 70,
       71, 72, 73, 74, 75, 76, 77, 78, 79, 80, 81, 82, 83, 84, 85, 86, 87,
       88, 89, 90, 95, 97, 98, 99, 100, 101, 102, 103, 104, 105, 106, 107,
       108, 109, 110, 111, 112, 113, 114, 115, 116, 117, 118, 119, 120, 121,
       122, 124 >>

charCodeAt(c) == CodeUnits[CHOOSE i \in 1..Len(CodedChars) : CodedChars[i] = c]

RECURSIVE strLess(_, _)
\* a < b for strings: by code units, a proper prefix first
strLess(a, b) ==
    IF Len(b) = 0 THEN FALSE
    ELSE IF Len(a) = 0 THEN TRUE
    ELSE IF a[1] = b[1] THEN strLess(Tail(a), Tail(b))
    ELSE charCodeAt(a[1]) < charCodeAt(b[1])

RECURSIVE insertStr(_, _)
insertStr(sorted, e) ==
    IF Len(sorted) = 0 THEN <<e>>
    ELSE IF strLess(e, Head(sorted)) THEN <<e>> \o sorted
    ELSE <<Head(sorted)>> \o insertStr(Tail(sorted), e)

RECURSIVE sortStrings(_)
\* Array.prototype.sort() with the default comparison
sortStrings(a) ==
    IF Len(a) = 0 THEN <<>>
    ELSE insertStr(sortStrings(SubSeq(a, 1, Len(a) - 1)), a[Len(a)])

Letters ==
    {CodedChars[i] : i \in {j \in 1..Len(CodedChars) :
        \/ (CodeUnits[j] >= 65 /\ CodeUnits[j] <= 90)
        \/ (CodeUnits[j] >= 97 /\ CodeUnits[j] <= 122)}}

Digits == {"0", "1", "2", "3", "4", "5", "6", "7", "8", "9"}

\* IDENT_RX = /^[A-Za-z_$][\w$]*$/
IDENT_RX(name) ==
    /\ Len(name) > 0
    /\ name[1] \in Letters \cup {"_", "$"}
    /\ \A i \in 2..Len(name) : name[i] \in Letters \cup Digits \cup {"_", "$"}

\* whether text `sub` occurs in text `s`
Includes(s, sub) ==
    \E i \in 0..(Len(s) - Len(sub)) : SubSeq(s, i + 1, i + Len(sub)) = sub

-----------------------------------------------------------------------------
(* JavaScript values *)

Str(chars) == [t |-> "str", s |-> chars, n |-> 0]

Num(k) == [t |-> "num", s |-> <<>>, n |-> k]

JsUndefined == [t |-> "undef", s |-> <<>>, n |-> 0]

NaN == [t |-> "nan", s |-> <<>>, n |-> 0]

\* a plain object (the prime ctx, the bound context, a fragment record)
Obj(tag) == [t |-> "obj", s |-> tag, n |-> 0]

\* a function value, named for reference
Fn(name) == [t |-> "fn", s |-> name, n |-> 0]

RECURSIVE digitsOf(_)
\* the decimal digits of a natural number
digitsOf(k) ==
    IF k < 10 THEN <<CodedChars[k + 2]>>
    ELSE digitsOf(k \div 10) \o <<CodedChars[(k % 10) + 2]>>

\* String(v), as string concatenation applies it
toString(v) ==
    CASE v.t = "str" -> v.s
      [] v.t = "num" -> digitsOf(v.n)
      [] v.t = "undef" -> <<"u", "n", "d", "e", "f", "i", "n", "e", "d">>
      [] v.t = "nan" -> <<"N", "a", "N">>
      [] v.t = "obj" ->
            <<"[", "o", "b", "j", "e", "c", "t", " ", "O", "b", "j", "e", "c", "t", "]">>
      [] v.t = "fn" -> <<"f", "u", "n", "c", "t", "i", "o", "n", " ">> \o v.s

\* the binary + of JavaScript: addition of numbers, else concatenation
jsPlus(a, b) ==
    IF a.t \in {"num", "undef", "nan"} /\ b.t \in {"num", "undef", "nan"}
    THEN IF a.t = "num" /\ b.t = "num" THEN Num(a.n + b.n) ELSE NaN
    ELSE Str(toString(a) \o toString(b))

\* an object as its own properties in insertion order: <<[k, v], ...>>
hasKey(obj, k) == \E i \in 1..Len(obj) : obj[i].k = k

\* obj[k]
getKey(obj, k) ==
    IF hasKey(obj, k) THEN obj[CHOOSE i \in 1..Len(obj) : obj[i].k = k].v
    ELSE JsUndefined

\* { ...obj, [k]: v } : a key already present keeps its place
setKey(obj, k, v) ==
    IF hasKey(obj, k)
    THEN [i \in 1..Len(obj) |-> IF obj[i].k = k THEN [k |-> k, v |-> v] ELSE obj[i]]
    ELSE Append(obj, [k |-> k, v |-> v])

RECURSIVE spread(_, _)
\* { ...a, ...b }
spread(a, b) ==
    IF Len(b) = 0 THEN a
    ELSE spread(setKey(a, Head(b).k, Head(b).v), Tail(b))

\* Object.keys(obj)
objectKeys(obj) == [i \in 1..Len(obj) |-> obj[i].k]

-----------------------------------------------------------------------------
(* unsafe.ts: splitTemplateIntoParts *)

\* the backtick character (a string literal of the module cannot hold it)
Backtick == "backtick"

RECURSIVE skipNested(_, _, _)
\* lines 141-153: the ${ ... } nested in a backtick-quoted segment
skipNested(src, i, d) ==
    IF ~(i < Len(src) /\ d > 0) THEN i
    ELSE LET cc == At(src, i) IN
         IF cc = "\\" THEN skipNested(src, i + 2, d)
         ELSE IF cc = "{" THEN skipNested(src, i + 1, d + 1)
         ELSE IF cc = "}" THEN skipNested(src, i + 1, d - 1)
         ELSE skipNested(src, i + 1, d)

RECURSIVE skipQuoted(_, _, _)
\* lines 126-157: from after the opening quote to after the closing one
skipQuoted(src, i, quote) ==
    IF ~(i < Len(src)) THEN i
    ELSE LET c == At(src, i) IN
         IF c = "\\" THEN skipQuoted(src, i + 2, quote)
         ELSE IF c = quote THEN i + 1
         ELSE IF quote = Backtick /\ c = "$" /\ At(src, i + 1) = "{"
              THEN skipQuoted(src, skipNested(src, i + 2, 1), quote)
         ELSE skipQuoted(src, i + 1, quote)

RECURSIVE scanExpr(_, _, _)
\* lines 118-161: the index after the balanced ${ ... }
scanExpr(src, i, depth) ==
    IF ~(i < Len(src) /\ depth > 0) THEN i
    ELSE LET ch == At(src, i) IN
         IF ch = "{" THEN scanExpr(src, i + 1, depth + 1)
         ELSE IF ch = "}" THEN scanExpr(src, i + 1, depth - 1)
         ELSE IF ch \in {"\"", "'", Backtick}
              THEN scanExpr(src, skipQuoted(src, i + 1, ch), depth)
         ELSE scanExpr(src, i + 1, depth)

RECURSIVE splitLoop(_, _, _, _)
\* lines 108-168: the outer loop, with its variables i, litStart and parts
splitLoop(src, i, litStart, parts) ==
    IF ~(i < Len(src)) THEN
        IF litStart < Len(src)
        THEN Append(parts, [type |-> "lit", value |-> SliceFrom(src, litStart)])
        ELSE parts
    ELSE IF At(src, i) = "$" /\ At(src, i + 1) = "{" THEN
        LET parts1 == IF i > litStart
                      THEN Append(parts, [type |-> "lit",
                                          value |-> Slice(src, litStart, i)])
                      ELSE parts
            exprStart == i + 2
            i2 == scanExpr(src, exprStart, 1)
            expr == Slice(src, exprStart, i2 - 1)
        IN  splitLoop(src, i2, i2, Append(parts1, [type |-> "expr", value |-> expr]))
    ELSE splitLoop(src, i + 1, litStart, parts)

splitTemplateIntoParts(src) == splitLoop(src, 0, 0, <<>>)

-----------------------------------------------------------------------------
(* unsafe.ts: unsafeInterpolator -- compile *)

\* unsafeInterpolator's defaults: ctxName = "ctx", recursionLimit = 9
ctxName == <<"c", "t", "x">>

recursionLimit == 9

\* the bound global context object
ctx == Obj(<<"c", "t", "x">>)

\* the names fragments are called by in the model's templates
PartialNames ==
    { <<"f", "o", "o", "t", "e", "r">>, <<"a">>, <<"b">>, <<"c">>,
      <<"n", "o", "p", "e">> }

\* the second argument of a partial call, as written and as it evaluates:
\* none, {text:'hi'}, or the shorthand {partial} that reads `partial` from scope
ArgForms ==
    { [text |-> <<>>, args |-> <<>>],
      [text |-> <<",", "{", "t", "e", "x", "t", ":", "'", "h", "i", "'", "}">>,
       args |-> <<[k |-> <<"t", "e", "x", "t">>, from |-> "lit",
                   v |-> Str(<<"h", "i">>)]>>],
      [text |-> <<",", "{", "p", "a", "r", "t", "i", "a", "l", "}">>,
       args |-> <<[k |-> <<"p", "a", "r", "t", "i", "a", "l">>, from |-> "scope",
                   v |-> JsUndefined]>>] }

\* the expression text  await partial('<name>'<args>)
callText(name, argsText) ==
    <<"a", "w", "a", "i", "t", " ", "p", "a", "r", "t", "i", "a", "l", "(", "'">>
        \o name \o <<"'">> \o argsText \o <<")">>

CallTable ==
    { [text |-> callText(nm, a.text), name |-> nm, args |-> a.args] :
          nm \in PartialNames, a \in ArgForms }

RECURSIVE parseNat(_)
parseNat(text) ==
    IF Len(text) = 0 THEN 0
    ELSE parseNat(SubSeq(text, 1, Len(text) - 1)) * 10
         + (charCodeAt(text[Len(text)]) - 48)

\* the position (from 1) of the first [ of the text, 0 when it has none
firstBracket(text) ==
    IF \E i \in 1..Len(text) : text[i] = "["
    THEN CHOOSE i \in 1..Len(text) :
             text[i] = "[" /\ \A j \in 1..(i - 1) : text[j] # "["
    ELSE 0

TextCallSuffix == <<"\"", "]", ".", "t", "e", "x", "t", "(", ")">>

\* whether the text reads  <identifier>["<key>"].text()
isTextOfMember(text) ==
    LET b == firstBracket(text)
        n == Len(text)
    IN  /\ b > 1
        /\ n >= b + 1 + Len(TextCallSuffix)
        /\ IDENT_RX(SubSeq(text, 1, b - 1))
        /\ text[b + 1] = "\""
        /\ SubSeq(text, n - Len(TextCallSuffix) + 1, n) = TextCallSuffix
        /\ \A i \in (b + 2)..(n - Len(TextCallSuffix)) : text[i] \notin {"\"", "\\"}

\* how the JavaScript parser reads the text between ${ and }, for the
\* expressions the model's templates hold: an identifier, a decimal literal,
\* an awaited call of `partial`, the text() of a member read by a string key;
\* the empty text and unbalanced text are syntax errors
parseExpr(text) ==
    IF IDENT_RX(text)
    THEN [kind |-> "ident", name |-> text, n |-> 0, args |-> <<>>]
    ELSE IF isTextOfMember(text)
    THEN [kind |-> "member", name |-> SubSeq(text, 1, firstBracket(text) - 1), n |-> 0,
          args |-> <<[k |-> SubSeq(text, firstBracket(text) + 2,
                                   Len(text) - Len(TextCallSuffix)),
                      from |-> "key", v |-> JsUndefined]>>]
    ELSE IF Len(text) > 0 /\ \A i \in 1..Len(text) : text[i] \in Digits
    THEN [kind |-> "num", name |-> <<>>, n |-> parseNat(text), args |-> <<>>]
    ELSE IF \E c \in CallTable : c.text = text
    THEN LET c == CHOOSE c \in CallTable : c.text = text
         IN  [kind |-> "call", name |-> c.name, n |-> 0, args |-> c.args]
    ELSE [kind |-> "syntaxError", name |-> <<>>, n |-> 0, args |-> <<>>]

NoError == [name |-> "none", about |-> <<>>]

Error(name, about) == [name |-> name, about |-> about]

\* a renderer that was never compiled
NoRenderer == [parts |-> <<>>, keys |-> <<>>]

\* compile(source, keys): the renderer, or the error thrown
compile(source, keys) ==
    LET parts == splitTemplateIntoParts(source)
        bad == {i \in 1..Len(keys) : ~IDENT_RX(keys[i])}
        badExpr == {i \in 1..Len(parts) :
                       /\ parts[i].type = "expr"
                       /\ parseExpr(parts[i].value).kind = "syntaxError"}
    IN  IF \E i \in 1..Len(keys) : keys[i] = ctxName
        THEN [ok |-> FALSE, error |-> Error("KeyConflictsWithCtxName", ctxName),
              fn |-> NoRenderer]
        ELSE IF bad # {}
        THEN [ok |-> FALSE,
              error |-> Error("InvalidLocalKey",
                              keys[CHOOSE i \in bad : \A j \in bad : i <= j]),
              fn |-> NoRenderer]
        ELSE IF badExpr # {}
        THEN [ok |-> FALSE, error |-> Error("SyntaxError", source), fn |-> NoRenderer]
        ELSE [ok |-> TRUE, error |-> NoError, fn |-> [parts |-> parts, keys |-> keys]]

-----------------------------------------------------------------------------
(* unsafe.ts: the compiled renderer, (ctx, locals) => "lit" + (expr) + ... *)

\* a Map or the own keys of an object, as a function on the keys
EmptyMap == [x \in {} |-> 0]

mapHas(m, k) == k \in DOMAIN m

mapSet(m, k, v) == [x \in (DOMAIN m) \cup {k} |-> IF x = k THEN v ELSE m[x]]

\* the value a caller binds to expose a capture factory's history: reading a
\* key of it reads the history as it is at the time of the read; a key the
\* history lacks reads as undefined, and undefined.text() is a TypeError
HistoryRef == Obj(<<"h", "i", "s", "t", "o", "r", "y">>)

\* whether the renderer's body binds the identifier
inScope(fn, name) ==
    \/ \E i \in 1..Len(fn.keys) : fn.keys[i] = name
    \/ name = ctxName
    \/ name \in {<<"_", "_", "c", "t", "x">>, <<"_", "_", "l">>}

\* the value of a bound identifier: const k = __l["k"], const ctx = __ctx
resolve(fn, locals, name) ==
    IF \E i \in 1..Len(fn.keys) : fn.keys[i] = name THEN getKey(locals, name)
    ELSE IF name = <<"_", "_", "l">> THEN Obj(<<"_", "_", "l">>)
    ELSE ctx

Value(v) == [kind |-> "value", value |-> v, error |-> NoError,
             name |-> <<>>, args |-> <<>>]

Throw(e) == [kind |-> "throw", value |-> JsUndefined, error |-> e,
             name |-> <<>>, args |-> <<>>]

RECURSIVE evalArgs(_, _, _)
\* the object literal passed as the locals of a partial call
evalArgs(fn, locals, args) ==
    IF Len(args) = 0 THEN <<>>
    ELSE <<[k |-> Head(args).k,
            v |-> IF Head(args).from = "scope"
                  THEN resolve(fn, locals, Head(args).k)
                  ELSE Head(args).v]>> \o evalArgs(fn, locals, Tail(args))

\* the evaluation of one part of the renderer's body: a value, an error
\* thrown, or a call of the partial helper that the renderer then awaits
evalPart(fn, locals, part) ==
    IF part.type = "lit" THEN Value(Str(part.value))
    ELSE LET e == parseExpr(part.value)
             callee == <<"p", "a", "r", "t", "i", "a", "l">>
         IN  CASE e.kind = "num" -> Value(Num(e.n))
               [] e.kind = "ident" ->
                    IF inScope(fn, e.name) THEN Value(resolve(fn, locals, e.name))
                    ELSE Throw(Error("ReferenceError", e.name))
               [] e.kind = "member" ->
                    IF ~inScope(fn, e.name) THEN Throw(Error("ReferenceError", e.name))
                    ELSE IF resolve(fn, locals, e.name) = HistoryRef
                              /\ mapHas(history, e.args[1].k)
                    THEN Value(Str(history[e.args[1].k].text))
                    ELSE Throw(Error("TypeError", e.args[1].k))
               [] e.kind = "call" ->
                    IF ~inScope(fn, callee) THEN Throw(Error("ReferenceError", callee))
                    ELSE IF resolve(fn, locals, callee).t # "fn"
                    THEN Throw(Error("TypeError", callee))
                    ELSE IF \E i \in 1..Len(e.args) :
                              e.args[i].from = "scope" /\ ~inScope(fn, e.args[i].k)
                    THEN Throw(Error("ReferenceError", callee))
                    ELSE [kind |-> "call", value |-> JsUndefined, error |-> NoError,
                          name |-> e.name, args |-> evalArgs(fn, locals, e.args)]
               [] OTHER -> Throw(Error("SyntaxError", part.value))

\* the running value of  p1 + p2 + ... : the first operand as it is
accumulate(hasAcc, acc, v) == IF hasAcc THEN jsPlus(acc, v) ELSE v

RECURSIVE renderFrom(_, _, _, _, _)
\* the renderer's body run to its end, when no part awaits a helper call
renderFrom(fn, locals, i, hasAcc, acc) ==
    IF i > Len(fn.parts) THEN Value(IF hasAcc THEN acc ELSE JsUndefined)
    ELSE LET r == evalPart(fn, locals, fn.parts[i])
         IN  IF r.kind = "value"
             THEN renderFrom(fn, locals, i + 1, TRUE, accumulate(hasAcc, acc, r.value))
             ELSE IF r.kind = "throw" THEN r
             ELSE Throw(Error("HelperCallOutsideFactory", r.name))

-----------------------------------------------------------------------------
(* unsafe.ts: unsafeInterpolator -- interpolate and its cache *)

\* the recursion stack argument when it is not passed
NoStack == [defined |-> FALSE, frames |-> <<>>]

Stack(fs) == [defined |-> TRUE, frames |-> fs]

\* the arrow character of the diagnostic
RightArrow == "rightarrow"

\* lines 229-233: the diagnostic returned in place of a render
recursionDiagnostic(stack) ==
    Str(<<"R", "e", "c", "u", "r", "s", "i", "o", "n", " ", "s", "t", "a", "c",
          "k", " ", "e", "x", "c", "e", "e", "d", "e", "d", " ", "m", "a", "x",
          ":", " ">>
        \o digitsOf(recursionLimit) \o <<" ", "(">>
        \o Join([i \in 1..Len(stack.frames) |-> stack.frames[i].template],
                <<" ", RightArrow, " ">>)
        \o <<")">>)

stackExceeded_AtLimit(stack) == stack.defined /\ Len(stack.frames) >= recursionLimit

\* line 229: if (stack && stack.length > recursionLimit)
stackExceeded(stack) == stack.defined /\ Len(stack.frames) > recursionLimit

signature_Unsorted(keys) == Join(keys, <<"|">>)

\* keys.slice().sort().join("|")
signature(keys) == Join(sortStrings(keys), <<"|">>)

\* cache.get(template)?.get(ctxName)?.get(sig)
cacheHas(c, template, sig) ==
    /\ mapHas(c, template)
    /\ mapHas(c[template], ctxName)
    /\ mapHas(c[template][ctxName], sig)

\* lines 243-253: the two outer maps are created before the lookup
cacheTouch(c, template) ==
    LET c1 == IF mapHas(c, template) THEN c ELSE mapSet(c, template, EmptyMap)
    IN  IF mapHas(c1[template], ctxName) THEN c1
        ELSE mapSet(c1, template, mapSet(c1[template], ctxName, EmptyMap))

\* bySig.set(sig, fn)
cacheStore(c, template, sig, fn) ==
    mapSet(c, template,
           mapSet(c[template], ctxName, mapSet(c[template][ctxName], sig, fn)))

\* interpolate(template, locals, stack) up to the call of the renderer:
\* kind "return" (the diagnostic), "throw" (compile failed) or "run" (fn is
\* the renderer to call); cache is the cache afterwards
interpolateEnter(c, useCache, template, locals, stack) ==
    LET Run(fn, c2) == [kind |-> "run", value |-> JsUndefined, error |-> NoError,
                        fn |-> fn, cache |-> c2]
        Fail(error, c2) == [kind |-> "throw", value |-> JsUndefined, error |-> error,
                            fn |-> NoRenderer, cache |-> c2]
        Compiled(fresh, sig, c1) ==
            IF ~useCache
            THEN IF fresh.ok THEN Run(fresh.fn, c) ELSE Fail(fresh.error, c)
            ELSE IF cacheHas(c1, template, sig)
            THEN Run(c1[template][ctxName][sig], c1)
            ELSE IF fresh.ok
            THEN Run(fresh.fn, cacheStore(c1, template, sig, fresh.fn))
            ELSE Fail(fresh.error, c1)
        WithKeys(keys) ==
            Compiled(compile(template, keys), signature(keys), cacheTouch(c, template))
    IN  IF stackExceeded(stack)
        THEN [kind |-> "return", value |-> recursionDiagnostic(stack),
              error |-> NoError, fn |-> NoRenderer, cache |-> c]
        ELSE WithKeys(objectKeys(locals))

\* what interpolate(template, locals, stack) does about compiling on the
\* engine with useCache = true: "none" (it returns the diagnostic before),
\* "hit" (bySig.get(sig) finds a renderer), "compiled" or "failed"
compileStep(c, template, locals, stack) ==
    LET Of(e) ==
            IF e.kind = "return" THEN "none"
            ELSE IF e.kind = "throw" THEN "failed"
            ELSE IF cacheHas(c, template, signature(objectKeys(locals))) THEN "hit"
            ELSE "compiled"
    IN  Of(interpolateEnter(c, TRUE, template, locals, stack))

\* what a call gave its caller
NoOutcome == [kind |-> "none", value |-> JsUndefined, error |-> NoError]

Returned(v) == [kind |-> "returned", value |-> v, error |-> NoError]

Thrown(e) == [kind |-> "thrown", value |-> JsUndefined, error |-> e]

\* interpolate(template, locals, stack) on an engine whose locals bind no
\* helper: the outcome of the call and the cache afterwards
interpolate(c, useCache, template, locals, stack) ==
    LET e == interpolateEnter(c, useCache, template, locals, stack)
        r == renderFrom(e.fn, locals, 1, FALSE, JsUndefined)
    IN  CASE e.kind = "return" -> [outcome |-> Returned(e.value), cache |-> e.cache]
          [] e.kind = "throw" -> [outcome |-> Thrown(e.error), cache |-> e.cache]
          [] OTHER ->
                [outcome |-> IF r.kind = "value" THEN Returned(r.value)
                             ELSE Thrown(r.error),
                 cache |-> e.cache]

-----------------------------------------------------------------------------
(* partial.ts: partialContent *)

NoInjection == [defined |-> FALSE, globs |-> <<>>, mode |-> "none"]

\* what Map.get and findInjectableForPath give when there is no fragment
Undefined ==
    [identity |-> <<>>, source |-> <<>>, argsZodSchema |-> <<>>, injection |-> NoInjection]

\* partialContent(identity, source, zodSchemaSpec, {injectGlobs, prepend, append}).
\* zodSchemaSpec is the list of property names the schema declares, each of
\* type string; an empty spec gives no validator.
partialContent(identity, source, zodSchemaSpec, injectGlobs, prepend, append) ==
    LET hasAppend == append
        hasPrepend == IF ~prepend /\ ~hasAppend THEN TRUE ELSE prepend
    IN  [identity |-> identity,
         source |-> source,
         argsZodSchema |-> zodSchemaSpec,
         injection |->
            IF Len(injectGlobs) > 0
            THEN [defined |-> TRUE,
                  globs |-> injectGlobs,
                  mode |-> IF hasPrepend /\ hasAppend THEN "both"
                           ELSE IF hasAppend THEN "append" ELSE "prepend"]
            ELSE NoInjection]

\* the validator built from the schema spec: every declared property must be
\* present with a string value (additional properties are allowed)
safeParse(argsZodSchema, locals) ==
    \A i \in 1..Len(argsZodSchema) :
        /\ hasKey(locals, argsZodSchema[i])
        /\ getKey(locals, argsZodSchema[i]).t = "str"

RECURSIVE schemaProps(_)
schemaProps(spec) ==
    IF Len(spec) = 0 THEN <<>>
    ELSE (<<"\"">> \o Head(spec)
          \o <<"\"", ":", "{", "\"", "t", "y", "p", "e", "\"", ":", "\"", "s", "t",
          "r", "i", "n", "g", "\"", "}">>
          \o (IF Len(spec) > 1 THEN <<",">> ELSE <<>>))
         \o schemaProps(Tail(spec))

\* argsZodSchemaSpec = JSON.stringify(zodSchemaSpec)
argsZodSchemaSpec(spec) == <<"{">> \o schemaProps(spec) \o <<"}">>

\* z.prettifyError(parsed.error): one line per rejected property
prettifyError(argsZodSchema, locals) ==
    LET rejected == SelectSeq(argsZodSchema,
                        LAMBDA k : ~(hasKey(locals, k) /\ getKey(locals, k).t = "str"))
    IN  <<"I", "n", "v", "a", "l", "i", "d", " ", "i", "n", "p", "u", "t", ":",
          " ", "e", "x", "p", "e", "c", "t", "e", "d", " ", "s", "t",
          "r", "i", "n", "g", " ", "a", "t", " ">> \o Join(rejected, <<",">>)

\* lines 124-128: the message of a rejected call
invalidArgsMessage(f, locals) ==
    <<"I", "n", "v", "a", "l", "i", "d", " ", "a", "r", "g", "u", "m", "e",
          "n", "t", "s", " ", "p", "a", "s", "s", "e", "d", " ", "t",
          "o", " ", "p", "a", "r", "t", "i", "a", "l", " ", "'">>
        \o f.identity \o <<"'", ":", " ">> \o prettifyError(f.argsZodSchema, locals)
        \o <<"\n">> \o <<"P", "a", "r", "t", "i", "a", "l", " ", "'">> \o f.identity
        \o <<"'", " ", "e", "x", "p", "e", "c", "t", "e", "d", " ", "a", "r", "g",
          "u", "m", "e", "n", "t", "s", " ">> \o argsZodSchemaSpec(f.argsZodSchema)

\* a content function that returns the source whatever the locals are
content_NoValidation(f, locals) ==
    [content |-> f.source, interpolate |-> TRUE, locals |-> locals]

\* the fragment's content(locals), called without onError
content(f, locals) ==
    IF Len(f.argsZodSchema) > 0 /\ ~safeParse(f.argsZodSchema, locals)
    THEN [content |-> invalidArgsMessage(f, locals), interpolate |-> FALSE,
          locals |-> locals]
    ELSE [content |-> f.source, interpolate |-> TRUE, locals |-> locals]

\* the status field of the render result that unsafe.ts reads: "ok" for a
\* render whose locals the validator accepted
renderStatus(partialResult) ==
    IF partialResult.interpolate THEN "ok" ELSE "invalid-args"

-----------------------------------------------------------------------------
(* partial.ts: partialContentCollection *)

\* catalog.get(identity)
get(cat, identity) ==
    IF \E i \in 1..Len(cat) : cat[i].identity = identity
    THEN cat[CHOOSE i \in 1..Len(cat) : cat[i].identity = identity]
    ELSE Undefined

\* a collection that stores every registration as a new entry
catalogSet_AlwaysAppends(cat, f) == Append(cat, f)

\* catalog.set(identity, fragment): a Map keeps one value per key, and a key
\* that is set again keeps its place in the insertion order
catalogSet(cat, f) ==
    IF \E i \in 1..Len(cat) : cat[i].identity = f.identity
    THEN [i \in 1..Len(cat) |-> IF cat[i].identity = f.identity THEN f ELSE cat[i]]
    ELSE Append(cat, f)

RECURSIVE countStarStar(_, _)
\* (g.match(/\*\*/g) ?? []).length : non-overlapping matches, left to right
countStarStar(g, i) ==
    IF i + 1 >= Len(g) THEN 0
    ELSE IF At(g, i) = "*" /\ At(g, i + 1) = "*" THEN 1 + countStarStar(g, i + 2)
    ELSE countStarStar(g, i + 1)

RECURSIVE removeStarStar(_, _)
\* g.replace(/\*\*/g, "")
removeStarStar(g, i) ==
    IF i >= Len(g) THEN <<>>
    ELSE IF At(g, i) = "*" /\ At(g, i + 1) = "*" THEN removeStarStar(g, i + 2)
    ELSE <<At(g, i)>> \o removeStarStar(g, i + 1)

\* a weight that counts a "**" once instead of twice
wildcardCount_SingleWeight(g) ==
    LET rest == removeStarStar(g, 0)
    IN  countStarStar(g, 0)
        + Cardinality({i \in 1..Len(rest) : rest[i] \in {"*", "?"}})

wildcardCount(g) ==
    LET starStar == countStarStar(g, 0) * 2
        rest == removeStarStar(g, 0)
        singles == Cardinality({i \in 1..Len(rest) : rest[i] \in {"*", "?"}})
    IN  starStar + singles

\* toRegex(glob): an anchored exact match for a non-glob, else globToRegExp
toRegex(glob) ==
    IF ~isGlob(glob)
    THEN LET exact == normalize(glob)
         IN  [i \in 1..Len(exact) |-> [t |-> "lit", c |-> exact[i]]]
    ELSE globToRegExp(glob)

RECURSIVE entriesOf(_, _)
\* rebuildIndex's inner loop: one entry per glob of the fragment
entriesOf(codePartial, globs) ==
    IF Len(globs) = 0 THEN <<>>
    ELSE LET gg == normalize(Head(globs))
         IN  <<[identity |-> codePartial.identity,
                re |-> toRegex(gg),
                wc |-> wildcardCount(gg),
                len |-> Len(gg)]>> \o entriesOf(codePartial, Tail(globs))

RECURSIVE rebuildIndex(_)
\* rebuildIndex: the entries of every fragment of the catalog that has an injection
rebuildIndex(cat) ==
    IF Len(cat) = 0 THEN <<>>
    ELSE (IF Head(cat).injection.defined
          THEN entriesOf(Head(cat), Head(cat).injection.globs)
          ELSE <<>>) \o rebuildIndex(Tail(cat))

\* a comparator that ranks the heavier wildcard weight first
compareHits_HeaviestFirst(a, b) ==
    IF b.wc - a.wc # 0 THEN b.wc - a.wc ELSE b.len - a.len

\* a comparator that ranks the later of two equal entries first
compareHits_LaterFirst(a, b) ==
    IF a.wc - b.wc # 0 THEN a.wc - b.wc
    ELSE IF b.len - a.len # 0 THEN b.len - a.len ELSE 1

\* the comparator of findInjectableForPath: (a.wc - b.wc) || (b.len - a.len)
compareHits(a, b) == IF a.wc - b.wc # 0 THEN a.wc - b.wc ELSE b.len - a.len

RECURSIVE insertHit(_, _)
\* insert e into the sorted list after every element that does not compare greater
insertHit(sorted, e) ==
    IF Len(sorted) = 0 THEN <<e>>
    ELSE IF compareHits(Head(sorted), e) <= 0
         THEN <<Head(sorted)>> \o insertHit(Tail(sorted), e)
         ELSE <<e>> \o sorted

RECURSIVE sortHits(_)
\* Array.prototype.sort with compareHits: a stable sort
sortHits(hits) ==
    IF Len(hits) = 0 THEN <<>>
    ELSE insertHit(sortHits(SubSeq(hits, 1, Len(hits) - 1)), hits[Len(hits)])

\* the index entries whose matcher accepts the normalized path
hitsFor(idx, path) ==
    LET p == normalize(path)
        test(c) == regexTest(c.re, p)
    IN  SelectSeq(idx, test)

findInjectableForPath(cat, idx, path) ==
    IF Len(path) = 0 THEN Undefined
    ELSE LET hits == sortHits(hitsFor(idx, path))
         IN  IF Len(hits) = 0 THEN Undefined
             ELSE get(cat, hits[1].identity)

\* a register that adds the new fragment's entries to the index it had
register_KeepsOldEntries(cat, idx, codePartial, onDuplicate) ==
    LET found == get(cat, codePartial.identity)
    IN  IF found # Undefined /\ onDuplicate = "throw"
        THEN [catalog |-> cat, index |-> idx, outcome |-> "AlreadyExists"]
        ELSE IF found # Undefined /\ onDuplicate = "ignore"
        THEN [catalog |-> cat, index |-> idx, outcome |-> "ignored"]
        ELSE [catalog |-> catalogSet(cat, codePartial),
              index |-> idx \o (IF codePartial.injection.defined
                                THEN entriesOf(codePartial, codePartial.injection.globs)
                                ELSE <<>>),
              outcome |-> "registered"]

\* register(codePartial, onDuplicate): onDuplicate is "none" when no callback
\* is given, else what the callback returns
register(cat, idx, codePartial, onDuplicate) ==
    LET found == get(cat, codePartial.identity)
    IN  IF found # Undefined /\ onDuplicate = "throw"
        THEN [catalog |-> cat, index |-> idx, outcome |-> "AlreadyExists"]
        ELSE IF found # Undefined /\ onDuplicate = "ignore"
        THEN [catalog |-> cat, index |-> idx, outcome |-> "ignored"]
        ELSE LET cat2 == catalogSet(cat, codePartial)
             IN  [catalog |-> cat2, index |-> rebuildIndex(cat2),
                  outcome |-> "registered"]

-----------------------------------------------------------------------------
(* partial.ts: partialContentCollection.compose *)

\* a merge that only ever appends the wrapper
merge_AppendOnly(mode, wrapperText, merged) == merged \o <<"\n">> \o wrapperText

\* lines 279-286: the wrapper text around the content, by injection mode
merge(mode, wrapperText, merged) ==
    LET Appended(m) ==
            IF mode \in {"append", "both"} THEN m \o <<"\n">> \o wrapperText ELSE m
    IN  Appended(IF mode \in {"prepend", "both"}
                 THEN wrapperText \o <<"\n">> \o merged ELSE merged)

\* `Injectable '<identity>' failed to render`
failedMessage(wrapper) ==
    <<"I", "n", "j", "e", "c", "t", "a", "b", "l", "e", " ", "'">> \o wrapper.identity \o <<"'", " ", "f", "a", "i", "l", "e", "d", " ", "t", "o", " ", "r", "e",
      "n", "d", "e", "r">>

\* what the caller's onError gives back for (msg, content, err?)
onErrorReturn(msg, resultContent) == <<"o", "n", "E", "r", "r", "o", "r", ":", " ">> \o msg \o <<"|">> \o resultContent

\* a failure res that keeps the input's interpolate flag
failedToRender_KeepsFlag(wrapper, res, onError, detail) ==
    [content |-> IF onError THEN onErrorReturn(failedMessage(wrapper), res.content)
                 ELSE failedMessage(wrapper) \o <<":", " ">> \o detail,
     interpolate |-> res.interpolate, locals |-> res.locals]

\* lines 259-265 and 268-273: the res returned when the wrapper did not render
failedToRender(wrapper, res, onError, detail) ==
    [content |-> IF onError THEN onErrorReturn(failedMessage(wrapper), res.content)
                 ELSE failedMessage(wrapper) \o <<":", " ">> \o detail,
     interpolate |-> FALSE, locals |-> res.locals]

InvalidArgsDetail ==
    <<"w", "r", "a", "p", "p", "e", "r", " ", "r", "e", "p", "o", "r", "t",
      "e", "d", " ", "i", "n", "v", "a", "l", "i", "d", " ", "a", "r",
      "g", "u", "m", "e", "n", "t", "s">>

\* String(err) of the error a hand-built content function raises
RaisedDetail ==
    <<"E", "r", "r", "o", "r", ":", " ", "b", "o", "o", "m">>

\* the body of compose once the wrapper has been looked up, res being the
\* prior render result; contentRaises: the wrapper is a hand-built fragment
\* whose content function raises Error("boom"); onError, when given, returns
\* onErrorReturn(msg, content)
composeWith(wrapper, res, onError, contentRaises) ==
    LET Rendered(wr) ==
            IF ~wr.interpolate
            THEN failedToRender(wrapper, res, onError, InvalidArgsDetail)
            ELSE [content |-> merge(wrapper.injection.mode, wr.content, res.content),
                  interpolate |-> res.interpolate, locals |-> res.locals]
    IN  IF wrapper = Undefined \/ ~wrapper.injection.defined THEN res
        ELSE IF contentRaises THEN failedToRender(wrapper, res, onError, RaisedDetail)
        ELSE Rendered(content(wrapper, res.locals))

compose(cat, idx, res, path, onError, contentRaises) ==
    composeWith(findInjectableForPath(cat, idx, path), res, onError, contentRaises)

-----------------------------------------------------------------------------
(* capture.ts: capture specs, the default onCapture, capture of the two
   factories *)

MemorySpec(key) == [nature |-> "memory", key |-> key, fsPath |-> <<>>, gitignore |-> FALSE]

\* a path spec with no gitignore property
PathSpec(fsPath) ==
    [nature |-> "relFsPath", key |-> <<>>, fsPath |-> fsPath, gitignore |-> FALSE]

\* a path spec with gitignore: true
IgnorablePathSpec(fsPath) ==
    [nature |-> "relFsPath", key |-> <<>>, fsPath |-> fsPath, gitignore |-> TRUE]

\* what isCapturable returns: false, or specs (a list; the one spec of the
\* synchronous factory is a list of one)
NotCapturable == [given |-> FALSE, list |-> <<>>]

Specs(list) == [given |-> TRUE, list |-> list]

\* the adapter prepareCaptured builds in the n-th capture call; text() returns
\* the operation's stdout
Captured(n, stdout) == [id |-> n, text |-> stdout]

NoCaptured == [id |-> 0, text |-> <<>>]

typicalOnCapture_KeepsFirst(cs, cap, hist) ==
    IF cs.nature = "relFsPath" THEN [history |-> hist, awaits |-> TRUE]
    ELSE [history |-> IF mapHas(hist, cs.key) THEN hist ELSE mapSet(hist, cs.key, cap),
          awaits |-> FALSE]

typicalOnCapture_PathWritesHistory(cs, cap, hist) ==
    IF cs.nature = "relFsPath"
    THEN [history |-> mapSet(hist, cs.fsPath, cap), awaits |-> TRUE]
    ELSE [history |-> mapSet(hist, cs.key, cap), awaits |-> FALSE]

typicalOnCapture_ReplacesHistory(cs, cap, hist) ==
    IF cs.nature = "relFsPath" THEN [history |-> hist, awaits |-> TRUE]
    ELSE [history |-> mapSet(EmptyMap, cs.key, cap), awaits |-> FALSE]

\* typicalOnCapture(cs, cap, history) up to its return: the history then, and
\* whether the promise it returns waits for Deno.writeTextFile
typicalOnCapture(cs, cap, hist) ==
    IF cs.nature = "relFsPath" THEN [history |-> hist, awaits |-> TRUE]
    ELSE [history |-> mapSet(hist, cs.key, cap), awaits |-> FALSE]

\* gitignorableOnCapture(cs, cap, history) up to its return, and whether it
\* goes on to call gitignore once the file is written
gitignorableOnCapture(cs, cap, hist) ==
    IF cs.nature = "relFsPath"
    THEN [history |-> hist, awaits |-> TRUE, ignores |-> cs.gitignore]
    ELSE [history |-> mapSet(hist, cs.key, cap), awaits |-> FALSE, ignores |-> FALSE]

\* Deno.writeTextFile(cs.fsPath, ...) was made for the adapter cap
Written(cs, cap) == [ev |-> "writeTextFile", path |-> cs.fsPath, cap |-> cap.id, spec |-> cs]

\* gitignore(cs.fsPath.slice("./".length)) was made
Ignored(cs, cap) ==
    [ev |-> "gitignore", path |-> SliceFrom(cs.fsPath, 2), cap |-> cap.id, spec |-> cs]

\* what the handler whose promise was pending did to the file system by the
\* time the promise resolved: typicalOnCapture wrote the file;
\* gitignorableOnCapture wrote the file and, for a spec with a truthy
\* gitignore, registered the rule
settledEffects(fac, cs, cap) ==
    IF fac.onCapture = "gitignorable" /\ gitignorableOnCapture(cs, cap, EmptyMap).ignores
    THEN <<Written(cs, cap), Ignored(cs, cap)>>
    ELSE <<Written(cs, cap)>>

\* what a handler did to the file system before it returned: the supplied,
\* synchronous one wrote a path spec's file unless the write failed
callEffects(fac, cs, cap, fails) ==
    IF fac.onCapture = "supplied" /\ cs.nature = "relFsPath" /\ ~fails
    THEN <<Written(cs, cap)>> ELSE <<>>

\* the call onCapture(cs, cap, history) up to its return. The default is
\* typicalOnCapture; gitignorableOnCapture is the handler a caller passes to
\* have ignore rules registered. A supplied handler is the caller's: the model's one is
\* synchronous, stores a memory spec's adapter and writes a path spec's file
\* before it returns, throwing when the write fails (fails).
onCaptureCall(fac, cs, cap, hist, fails) ==
    LET Typical(r) == [history |-> r.history, threw |-> FALSE,
                       promise |-> IF r.awaits THEN "pending" ELSE "resolved"]
    IN  IF fac.onCapture = "typical" THEN Typical(typicalOnCapture(cs, cap, hist))
        ELSE IF fac.onCapture = "gitignorable"
        THEN Typical(gitignorableOnCapture(cs, cap, hist))
        ELSE [history |-> IF cs.nature = "memory" THEN mapSet(hist, cs.key, cap) ELSE hist,
              threw |-> cs.nature = "relFsPath" /\ fails,
              promise |-> "none"]

capturable_NonEmpty(specs) == specs.given /\ specs.list # <<>>

\* `if (specs)`: false skips the capture; every array, the empty one too, is
\* truthy
capturable(specs) == specs.given

\* how a capture call that ran to its end stands: the asynchronous factory's
\* promise resolved, the synchronous factory's call returned
completed(fac) == IF fac.kind = "async" THEN "resolved" ELSE "returned"

\* a capture call after it called onCapture for its i-th spec, r being what
\* the call gave: captureFactory awaits what onCapture returned, so a throw
\* rejects the call's promise; captureFactorySync does not look at what
\* onCapture returned, so a throw leaves capture and a promise is dropped
afterOnCapture(fac, task, i, r) ==
    [task EXCEPT !.i = i,
                 !.pc = IF fac.kind = "async"
                        THEN IF r.threw THEN "rejected" ELSE "awaiting"
                        ELSE IF r.threw THEN "threw" ELSE "returned",
                 !.io = IF ~r.threw /\ r.promise = "pending" THEN "pending" ELSE "none"]

\* an entry of the trace of calls: ev is isCapturable, prepareCaptured,
\* onCapture.start, onCapture.end, onCapture.failed or render
Event(t, ev, i, cap) == [task |-> t, ev |-> ev, spec |-> i, cap |-> cap.id]

\* the trace entries of the call onCapture(specs[i], cap, history): its
\* start, then failed when it threw, or end when the synchronous factory got
\* it back
onCaptureEvents(fac, t, i, cap, r) ==
    <<Event(t, "onCapture.start", i, cap)>>
        \o (IF r.threw THEN <<Event(t, "onCapture.failed", i, cap)>>
            ELSE IF fac.kind = "sync" THEN <<Event(t, "onCapture.end", i, cap)>>
            ELSE <<>>)

-----------------------------------------------------------------------------
(* unsafe.ts: unsafeInterpFactory -- interpolateUnsafely and its partial helper *)

K_SELF == <<"S", "E", "L", "F">>

K_PARTIAL == <<"P", "A", "R", "T", "I", "A", "L">>

K_partial == <<"p", "a", "r", "t", "i", "a", "l">>

K_safeJsonStringify == <<"s", "a", "f", "e", "J", "s", "o", "n", "S", "t", "r", "i", "n", "g",
          "i", "f", "y">>

K_user == <<"u", "s", "e", "r">>

\* the caller's interpCtx(purpose): what it adds to the locals
interpCtx(purpose) ==
    IF purpose = "prime" THEN <<[k |-> K_user, v |-> Str(<<"Z", "o", "y", "a">>)]>> ELSE <<>>

\* lines 374-380: the locals of the top-level render
primeLocals ==
    setKey(setKey(setKey(spread(<<>>, interpCtx("prime")),
                         K_SELF, Obj(K_SELF)),
                  K_safeJsonStringify, Fn(K_safeJsonStringify)),
           K_partial, Fn(K_partial))

\* lines 395-401: the locals handed to the fragment
localsForPartial(found, partialLocals) ==
    setKey(setKey(spread(spread(<<[k |-> K_safeJsonStringify,
                                   v |-> Fn(K_safeJsonStringify)]>>,
                                interpCtx("partial")),
                         partialLocals),
                  K_PARTIAL, Obj(found.identity)),
           K_SELF, Obj(K_SELF))

\* lines 386-389: the comment returned for a name that is not registered
notFoundComment(cat, name) ==
    <<"/", "*", " ", "p", "a", "r", "t", "i", "a", "l", " ", "'">> \o name \o <<"'", " ", "n", "o", "t", " ", "f", "o", "u", "n", "d", " ", "(", "a",
          "v", "a", "i", "l", "a", "b", "l", "e", ":", " ">>
        \o Join([i \in 1..Len(cat) |-> cat[i].identity], <<",", " ">>)
        \o <<")", " ", "*", "/">>

\* what the helper gives the renderer that awaits it
HelperReturn(how, v, locals, accepted, c) ==
    [kind |-> "return", how |-> how, value |-> v, error |-> NoError,
     fn |-> NoRenderer, template |-> <<>>, locals |-> locals,
     accepted |-> accepted, cache |-> c, stack |-> NoStack]

HelperThrow(how, error, c) ==
    [kind |-> "throw", how |-> how, value |-> JsUndefined, error |-> error,
     fn |-> NoRenderer, template |-> <<>>, locals |-> <<>>, accepted |-> FALSE,
     cache |-> c, stack |-> NoStack]

\* line 416: the recursion stack the helper hands to the nested interpolate
\* call, [{ template: partialResult.content }]
helperStack(pr) == Stack(<<[template |-> pr.content]>>)

\* lines 413-417: the nested interpolate call, up to the call of the renderer
HelperInterpolate(pr, e) ==
    [kind |-> e.kind, how |-> "interpolated", value |-> e.value, error |-> e.error,
     fn |-> e.fn, template |-> pr.content, locals |-> pr.locals,
     accepted |-> TRUE, cache |-> e.cache, stack |-> helperStack(pr)]

\* a helper that hands every found fragment's content back as it is
partialHelper_NeverInterpolates(cat, c, name, partialLocals) ==
    LET Rendered(pr) == HelperReturn("asIs", Str(pr.content), pr.locals,
                                     pr.interpolate, c)
        Looked(found) ==
            IF found = Undefined
            THEN HelperReturn("notFound", Str(notFoundComment(cat, name)), <<>>,
                              FALSE, c)
            ELSE Rendered(content(found, localsForPartial(found, partialLocals)))
    IN  Looked(get(cat, name))

\* a helper that throws for a name that is not registered
partialHelper_ThrowsOnMiss(cat, c, name, partialLocals) ==
    LET Rendered(pr) ==
            IF renderStatus(pr) # "ok" \/ ~pr.interpolate
            THEN HelperReturn("asIs", Str(pr.content), pr.locals, pr.interpolate, c)
            ELSE HelperInterpolate(pr,
                     interpolateEnter(c, TRUE, pr.content, pr.locals,
                                      helperStack(pr)))
        Looked(found) ==
            IF found = Undefined
            THEN HelperThrow("notFound", Error("NotFound", name), c)
            ELSE Rendered(content(found, localsForPartial(found, partialLocals)))
    IN  Looked(get(cat, name))

\* lines 380-418: partial(name, partialLocals), up to the call of the
\* renderer of the fragment's content: kind "return" (a value is handed back),
\* "throw", or "run" (fn renders template with locals)
partialHelper(cat, c, name, partialLocals) ==
    LET Rendered(pr) ==
            IF renderStatus(pr) # "ok" \/ ~pr.interpolate
            THEN HelperReturn("asIs", Str(pr.content), pr.locals, pr.interpolate, c)
            ELSE HelperInterpolate(pr,
                     interpolateEnter(c, TRUE, pr.content, pr.locals,
                                      helperStack(pr)))
        Looked(found) ==
            IF found = Undefined
            THEN HelperReturn("notFound", Str(notFoundComment(cat, name)), <<>>,
                              FALSE, c)
            ELSE Rendered(content(found, localsForPartial(found, partialLocals)))
    IN  Looked(get(cat, name))

NoPrime == [source |-> <<>>, interpolate |-> "undefined"]

NoResult == [status |-> "none", source |-> JsUndefined, error |-> NoError]

NoPartialCall ==
    [name |-> <<>>, how |-> "none", locals |-> <<>>, accepted |-> FALSE,
     value |-> JsUndefined, depth |-> 0, stack |-> NoStack]

\* a catch block that lets the error go on to the caller
catchError_Rethrows(source, error) ==
    [status |-> "thrown", source |-> JsUndefined, error |-> error]

\* lines 425-427: catch (error) { return { status: false, error, source } }
catchError(source, error) ==
    [status |-> "false", source |-> Str(source), error |-> error]

\* lines 421-424: mutated !== source
settle(source, mutated) ==
    IF mutated # Str(source)
    THEN [status |-> "mutated", source |-> mutated, error |-> NoError]
    ELSE [status |-> "unmodified", source |-> Str(source), error |-> NoError]

\* a renderer in flight
Frame(template, fn, locals, name) ==
    [template |-> template, fn |-> fn, locals |-> locals, i |-> 1,
     hasAcc |-> FALSE, acc |-> JsUndefined, partial |-> name]

\* the frame after its current operand evaluated to v
advance(f, v) ==
    [f EXCEPT !.i = f.i + 1, !.hasAcc = TRUE, !.acc = accumulate(f.hasAcc, f.acc, v)]

-----------------------------------------------------------------------------
(* The collection as a state machine *)

G_allSql == <<"*", "*", "/", "*", ".", "s", "q", "l">>

G_reportsSql == <<"r", "e", "p", "o", "r", "t", "s", "/", "*", ".", "s", "q", "l">>

G_exact == <<"r", "e", "p", "o", "r", "t", "s", "/", "x", ".", "s", "q", "l">>

G_anySql == <<"*", ".", "s", "q", "l">>

G_docsSql == <<"d", "o", "c", "s", "/", "*", ".", "s", "q", "l">>

G_oneSql == <<"r", "e", "p", "o", "r", "t", "s", "/", "?", ".", "s", "q", "l">>

\* the fragments a caller may register: two identities occur twice, one
\* fragment validates its locals, two have globs of the same weight and length
FragmentPool ==
    { partialContent(<<"w", "1">>, <<"-", "-", " ", "a", "l", "l">>, <<>>,
                     <<G_allSql>>, TRUE, FALSE),
      partialContent(<<"w", "2">>, <<"-", "-", " ", "r", "e", "p">>, <<>>,
                     <<G_reportsSql>>, FALSE, TRUE),
      partialContent(<<"w", "1">>, <<"-", "-", " ", "n", "e", "w">>, <<>>,
                     <<G_anySql, G_exact>>, TRUE, TRUE),
      partialContent(<<"p">>, <<"p", "l", "a", "i", "n">>, <<>>,
                     <<>>, FALSE, FALSE),
      partialContent(<<"w", "2">>, <<"-", "-", " ", "v", "2">>, <<>>,
                     <<>>, FALSE, FALSE),
      partialContent(<<"w", "3">>, <<"-", "-", " ", "d", "o", "c">>,
                     <<<<"t", "e", "x", "t">>>>, <<G_docsSql>>, TRUE, TRUE),
      partialContent(<<"w", "4">>, <<"-", "-", " ", "o", "n", "e">>, <<>>,
                     <<G_oneSql>>, TRUE, FALSE) }

\* the prior render results handed to compose
PriorRenders ==
    { [content |-> <<"s", "e", "l", "e", "c", "t">>, interpolate |-> TRUE,
       locals |-> <<>>],
      [content |-> <<"s", "e", "l", "e", "c", "t">>, interpolate |-> TRUE,
       locals |-> <<[k |-> <<"t", "e", "x", "t">>, v |-> Str(<<"h", "i">>)]>>],
      [content |-> <<"s", "e", "l", "e", "c", "t">>, interpolate |-> FALSE,
       locals |-> <<[k |-> <<"t", "e", "x", "t">>, v |-> Str(<<"h", "i">>)]>>] }

OnDuplicates == {"none", "overwrite", "throw", "ignore"}

\* the paths a caller may look up: "" is the empty path
Paths ==
    { <<"r", "e", "p", "o", "r", "t", "s", "/", "x", ".", "s", "q", "l">>,
      <<".", "/", "r", "e", "p", "o", "r", "t", "s", "/", "/", "x", ".", "s", "q", "l">>,
      <<"x", ".", "s", "q", "l">>,
      <<"d", "o", "c", "s", "/", "a", ".", "s", "q", "l">>,
      <<"n", "o", "t", "e", "s", "/", "r", "e", "a", "d", "m", "e", ".", "m", "d">>,
      <<>> }

\* the paths of the results handed to compose
ComposePaths ==
    { <<"r", "e", "p", "o", "r", "t", "s", "/", "x", ".", "s", "q", "l">>,
      <<"d", "o", "c", "s", "/", "a", ".", "s", "q", "l">> }

NoOp ==
    [kind |-> "none", fragment |-> Undefined, onDuplicate |-> "none",
     outcome |-> "none", catalogBefore |-> <<>>, indexBefore |-> <<>>,
     path |-> <<>>, hit |-> Undefined]

\* the collection before any registration
RegistryIdle ==
    /\ catalog = <<>>
    /\ index = <<>>
    /\ op = NoOp
    /\ nOps = 0

NoFactory == [kind |-> "none", onCapture |-> "none"]

NoCall == [template |-> <<>>, locals |-> <<>>, stack |-> NoStack]

\* a capture factory before any capture call
CaptureIdle ==
    /\ history = EmptyMap
    /\ tasks = <<>>
    /\ log = <<>>
    /\ unhandled = <<>>
    /\ fsCalls = <<>>

\* nothing scanned yet
ScanIdle ==
    /\ scanInput = <<>>
    /\ scanParts = <<>>
    /\ scanOutcome = NoOutcome

\* the engine before any call, no capture factory made
EngineIdle ==
    /\ ScanIdle
    /\ cache = EmptyMap
    /\ call = NoCall
    /\ outcome = NoOutcome
    /\ uncached = NoOutcome
    /\ nCalls = 0
    /\ prime = NoPrime
    /\ frames = <<>>
    /\ result = NoResult
    /\ raised = NoError
    /\ lastPartial = NoPartialCall
    /\ compiled = "none"
    /\ inflight = <<>>
    /\ factory = NoFactory
    /\ CaptureIdle

InitRegistry == RegistryIdle /\ EngineIdle

\* collection.register(f, onDuplicate)
Register(f, onDuplicate) ==
    LET r == register(catalog, index, f, onDuplicate)
    IN  /\ nOps < MaxRegs
        /\ catalog' = r.catalog
        /\ index' = r.index
        /\ op' = [kind |-> "register", fragment |-> f, onDuplicate |-> onDuplicate,
                  outcome |-> r.outcome, catalogBefore |-> catalog,
                  indexBefore |-> index, path |-> <<>>,
                  hit |-> get(r.catalog, f.identity)]
        /\ nOps' = nOps + 1
        /\ UNCHANGED <<cacheVars, nCalls, unsafelyVars, captureVars, concurrencyVars, scanVars>>

\* collection.findInjectableForPath(path)
FindInjectable(path) ==
    /\ op' = [kind |-> "find", fragment |-> Undefined, onDuplicate |-> "none",
              outcome |-> "returned", catalogBefore |-> catalog,
              indexBefore |-> index, path |-> path,
              hit |-> findInjectableForPath(catalog, index, path)]
    /\ UNCHANGED <<catalog, index, nOps, cacheVars, nCalls, unsafelyVars,
                   captureVars, concurrencyVars, scanVars>>

\* collection.compose(res, {path, onError})
Compose(res, path, onError, contentRaises) ==
    /\ \E hit \in {findInjectableForPath(catalog, index, path)} :
          op' = [kind |-> "compose", fragment |-> Undefined, onDuplicate |-> "none",
                 outcome |-> "returned", catalogBefore |-> catalog,
                 indexBefore |-> index, path |-> path, hit |-> hit,
                 input |-> res, onError |-> onError, contentRaises |-> contentRaises,
                 output |-> composeWith(hit, res, onError, contentRaises)]
    /\ UNCHANGED <<catalog, index, nOps, cacheVars, nCalls, unsafelyVars,
                   captureVars, concurrencyVars, scanVars>>

NextRegistry ==
    \/ \E f \in FragmentPool, d \in OnDuplicates : Register(f, d)
    \/ \E path \in Paths : FindInjectable(path)
    \/ \E path \in ComposePaths, res \in PriorRenders, onError, contentRaises \in BOOLEAN :
           Compose(res, path, onError, contentRaises)

SpecRegistry == InitRegistry /\ [][NextRegistry]_vars

-----------------------------------------------------------------------------
(* Claims about the collection *)

\* the registration just made met an identity that was already registered
WasDuplicate == get(op.catalogBefore, op.fragment.identity) # Undefined

OnePerIdentity(cat) ==
    \A i, j \in 1..Len(cat) : cat[i].identity = cat[j].identity => i = j

\* C8: registering an identity that is already in the collection keeps the
\* first fragment and leaves catalog and index unchanged under "ignore",
\* raises AlreadyExists and leaves both unchanged under "throw", and under
\* "overwrite" or with no onDuplicate makes get(identity) return the new
\* fragment; the catalog never holds two fragments of one identity.
C8_DuplicatePolicy ==
    /\ OnePerIdentity(catalog)
    /\ (op.kind = "register" /\ WasDuplicate) =>
          /\ op.onDuplicate = "ignore" =>
                /\ op.outcome = "ignored"
                /\ catalog = op.catalogBefore
                /\ index = op.indexBefore
                /\ get(catalog, op.fragment.identity)
                       = get(op.catalogBefore, op.fragment.identity)
          /\ op.onDuplicate = "throw" =>
                /\ op.outcome = "AlreadyExists"
                /\ catalog = op.catalogBefore
                /\ index = op.indexBefore
          /\ op.onDuplicate \in {"overwrite", "none"} =>
                /\ op.outcome = "registered"
                /\ get(catalog, op.fragment.identity) = op.fragment
                /\ Len(catalog) = Len(op.catalogBefore)

\* C8 witness: a different fragment was registered under an identity already
\* present, with onDuplicate returning "ignore"
C8_Witness ==
    /\ op.kind = "register"
    /\ WasDuplicate
    /\ op.onDuplicate = "ignore"
    /\ op.fragment # get(op.catalogBefore, op.fragment.identity)
    /\ Len(catalog) >= 2

\* the positions of the index entries whose matcher accepts the path looked up
Matching == {i \in 1..Len(index) : regexTest(index[i].re, normalize(op.path))}

\* C9: findInjectableForPath returns the fragment of a matching entry of
\* lowest wildcard weight and, among those, of longest glob length; nothing
\* when no entry matches or the path is empty; with only "**/*.sql" and
\* "reports/*.sql" indexed, reports/x.sql gives the "reports/*.sql" fragment.
C9_BestMatch ==
    op.kind = "find" =>
        /\ (op.path = <<>> \/ Matching = {}) => op.hit = Undefined
        /\ (op.path # <<>> /\ Matching # {}) =>
              \E i \in Matching :
                  /\ op.hit = get(catalog, index[i].identity)
                  /\ op.hit # Undefined
                  /\ \A j \in Matching :
                        /\ index[i].wc <= index[j].wc
                        /\ index[j].wc = index[i].wc => index[i].len >= index[j].len
        /\ ( /\ op.path = G_exact
             /\ Len(index) = 2
             /\ \E i, j \in 1..2 :
                   /\ index[i].re = toRegex(G_allSql)
                   /\ index[j].re = toRegex(G_reportsSql)
                   /\ get(catalog, index[j].identity).injection.globs = <<G_reportsSql>> )
           => op.hit.injection.globs = <<G_reportsSql>>

\* C9 witness: reports/x.sql was looked up with exactly the two globs of the
\* example indexed, and both matched
C9_Witness ==
    /\ op.kind = "find"
    /\ op.path = G_exact
    /\ Len(index) = 2
    /\ Matching = {1, 2}
    /\ index[1].re = toRegex(G_allSql)
    /\ index[2].re = toRegex(G_reportsSql)
    /\ op.hit.injection.globs = <<G_reportsSql>>

\* C10 as stated: the weight computed for "**/*.sql" is 4 and the weight
\* computed for "reports/*.sql" is 2.
C10_Original ==
    \A i \in 1..Len(index) :
        /\ index[i].re = toRegex(G_allSql) => index[i].wc = 4
        /\ index[i].re = toRegex(G_reportsSql) => index[i].wc = 2

\* C10 amended: the weight computed for "**/*.sql" is 3 (2 for the "**" and 1
\* for the "*") and the weight computed for "reports/*.sql" is 1.
C10_Weights ==
    \A i \in 1..Len(index) :
        /\ index[i].re = toRegex(G_allSql) => index[i].wc = 3
        /\ index[i].re = toRegex(G_reportsSql) => index[i].wc = 1

\* C10 witness: the index holds an entry for each of the two globs
C10_Witness ==
    /\ \E i \in 1..Len(index) : index[i].re = toRegex(G_allSql)
    /\ \E i \in 1..Len(index) : index[i].re = toRegex(G_reportsSql)

\* the wrapper compose chose rendered: its content function did not raise and
\* its validator accepted the locals
WrapperRendered ==
    /\ op.hit # Undefined
    /\ ~op.contentRaises
    /\ content(op.hit, op.input.locals).interpolate

\* C11: when a wrapper matches the path and accepts the locals, compose
\* returns wrapper \n content (prepend), content \n wrapper (append) or
\* wrapper \n content \n wrapper (both), with the input's interpolate flag and
\* locals; when no wrapper matches, it returns the input result as it is.
C11_ComposeMerges ==
    op.kind = "compose" =>
        /\ op.hit = Undefined => op.output = op.input
        /\ WrapperRendered =>
              /\ op.output.interpolate = op.input.interpolate
              /\ op.output.locals = op.input.locals
              /\ op.hit.injection.mode = "prepend" =>
                    op.output.content = op.hit.source \o <<"\n">> \o op.input.content
              /\ op.hit.injection.mode = "append" =>
                    op.output.content = op.input.content \o <<"\n">> \o op.hit.source
              /\ op.hit.injection.mode = "both" =>
                    op.output.content = op.hit.source \o <<"\n">> \o op.input.content
                                            \o <<"\n">> \o op.hit.source

\* C11 witness: a validating wrapper of mode both accepted the locals and
\* was merged around a result that is not to be interpolated
C11_Witness ==
    /\ op.kind = "compose"
    /\ WrapperRendered
    /\ op.hit.argsZodSchema # <<>>
    /\ op.hit.injection.mode = "both"
    /\ ~op.input.interpolate
    /\ Len(op.output.content) = Len(op.input.content) + 2 * Len(op.hit.source) + 2

\* C12: when the chosen wrapper rejects the locals or its render raises,
\* compose returns (it does not throw) a result with interpolate = false, the
\* input's locals, and as content onError's return value when onError was
\* given, otherwise a default message naming the wrapper; the wrapper text is
\* not merged into the content.
C12_ComposeFailsClosed ==
    (op.kind = "compose" /\ op.hit # Undefined /\ ~WrapperRendered) =>
        /\ op.outcome = "returned"
        /\ op.output.interpolate = FALSE
        /\ op.output.locals = op.input.locals
        /\ op.onError =>
              op.output.content = onErrorReturn(failedMessage(op.hit), op.input.content)
        /\ ~op.onError =>
              /\ Includes(op.output.content, failedMessage(op.hit))
              /\ Includes(op.output.content, op.hit.identity)
        /\ ~Includes(op.output.content, op.hit.source)

\* C12 witness: the wrapper's validator rejected locals without `text`, no
\* onError was given, and the input result was to be interpolated
C12_Witness ==
    /\ op.kind = "compose"
    /\ op.hit # Undefined
    /\ op.hit.argsZodSchema # <<>>
    /\ ~op.contentRaises
    /\ ~content(op.hit, op.input.locals).interpolate
    /\ ~op.onError
    /\ op.input.interpolate
    /\ ~op.output.interpolate

-----------------------------------------------------------------------------
(* The interpolator as a state machine: one call sequence, run on an engine
   with useCache = true and on an engine with useCache = false *)

T_hi == <<"h", "i">>

T_xay == <<"x", "$", "{", "a", "}", "y">>

T_ab == <<"$", "{", "a", "}", "$", "{", "b", "}">>

T_nope == <<"$", "{", "n", "o", "p", "e", "}">>

TemplatesLow == {<<>>, T_hi, T_xay, T_ab, T_nope}

K_a == <<"a">>

K_b == <<"b">>

\* the locals objects of the calls: valid names in two orders, a name that
\* is no identifier, a name equal to ctxName
LocalsLow ==
    { <<>>,
      <<[k |-> K_a, v |-> Num(1)], [k |-> K_b, v |-> Num(2)]>>,
      <<[k |-> K_b, v |-> Num(2)], [k |-> K_a, v |-> Num(1)]>>,
      <<[k |-> K_a, v |-> Str(<<"s">>)]>>,
      <<[k |-> <<"a", "|", "b">>, v |-> Num(3)]>>,
      <<[k |-> ctxName, v |-> Num(4)]>> }

\* a recursion stack of n frames of the template
framesOf(template, n) == [i \in 1..n |-> [template |-> template]]

\* a recursion stack of n frames of different templates, t1 to tn, ending
\* with the template
chainOf(template, n) ==
    [i \in 1..n |-> [template |-> IF i = n THEN template ELSE <<"t">> \o digitsOf(i)]]

StacksLow(template) ==
    { NoStack, Stack(framesOf(template, 1)),
      Stack(chainOf(template, recursionLimit)),
      Stack(chainOf(template, recursionLimit + 1)) }

InitCache == RegistryIdle /\ EngineIdle

\* interpolate(template, locals, stack), on both engines
Interpolate(template, locals, stack) ==
    LET rc == interpolate(cache, TRUE, template, locals, stack)
        ru == interpolate(EmptyMap, FALSE, template, locals, stack)
    IN  /\ nCalls < MaxCalls
        /\ compiled' = compileStep(cache, template, locals, stack)
        /\ cache' = rc.cache
        /\ outcome' = rc.outcome
        /\ uncached' = ru.outcome
        /\ call' = [template |-> template, locals |-> locals, stack |-> stack]
        /\ nCalls' = nCalls + 1
        /\ UNCHANGED <<registryVars, unsafelyVars, captureVars, inflight, scanVars>>

NextCache ==
    \E template \in TemplatesLow, locals \in LocalsLow :
        \E stack \in StacksLow(template) : Interpolate(template, locals, stack)

SpecCache == InitCache /\ [][NextCache]_vars

-----------------------------------------------------------------------------
(* Claims about the interpolator's cache *)

\* C4: for every call of a sequence, the engine with caching enabled and the
\* engine with caching disabled give the same outcome: the same output when
\* the call succeeds and the same failure when it fails.
C4_CachedLikeUncached == outcome = uncached

\* whether two calls give the same template and locals of the same names in
\* a different order
Permuted(first, second) ==
    /\ first.template = second.template
    /\ objectKeys(first.locals) # objectKeys(second.locals)
    /\ sortStrings(objectKeys(first.locals)) = sortStrings(objectKeys(second.locals))

\* C19: when a call that compiled the template, or found it compiled, is
\* followed by a call on the same template whose locals have the same names
\* in a different order, the second call uses the first call's cache entry
\* and does not compile again; each of the two calls returns what a fresh
\* compile returns for its own locals.
C19_OrderIndependentKey ==
    [][Permuted(call, call') =>
          /\ compiled \in {"hit", "compiled"} =>
                /\ compiled' \in {"hit", "none"}
                /\ compiled' = "none" =>
                      call'.stack.defined /\ Len(call'.stack.frames) > recursionLimit
                /\ cache' = cache
          /\ outcome = uncached
          /\ outcome' = uncached']_vars

\* C19 witness: ${a}${b} was compiled by a call with locals {a, b}; the call
\* with locals {b: 2, a: 1} found that renderer and returned (a) + (b), as a
\* fresh compile does
C19_Witness ==
    /\ call.template = T_ab
    /\ objectKeys(call.locals) = <<K_b, K_a>>
    /\ compiled = "hit"
    /\ cacheHas(cache, T_ab, <<"a", "|", "b">>)
    /\ cache[T_ab][ctxName][<<"a", "|", "b">>].keys = <<K_a, K_b>>
    /\ outcome = Returned(Num(3))
    /\ uncached = outcome

-----------------------------------------------------------------------------
(* interpolate under concurrent callers: a call runs, without giving way, up
   to the await of its renderer; its promise settles in a later step *)

\* how many calls are started before any of them is awaited
MaxInflight == 2

InitConcurrent == RegistryIdle /\ EngineIdle

\* interpolate(template, locals) is called on the engine with the cache and
\* runs to its first await: the lookup, the compile, the store and, for a
\* renderer that awaits nothing, the render
Enter(template, locals) ==
    /\ Len(inflight) < MaxInflight
    /\ \E rc \in {interpolate(cache, TRUE, template, locals, NoStack)} :
          /\ cache' = rc.cache
          /\ inflight' = Append(inflight, [template |-> template, locals |-> locals,
                                           outcome |-> rc.outcome, delivered |-> FALSE])
    /\ compiled' = compileStep(cache, template, locals, NoStack)
    /\ UNCHANGED <<registryVars, call, outcome, uncached, nCalls, unsafelyVars,
                   captureVars, scanVars>>

\* the promise of the i-th call settles and its caller gets the outcome
Deliver(i) ==
    /\ i \in 1..Len(inflight)
    /\ ~inflight[i].delivered
    /\ inflight' = [inflight EXCEPT ![i].delivered = TRUE]
    /\ call' = [template |-> inflight[i].template, locals |-> inflight[i].locals,
                stack |-> NoStack]
    /\ outcome' = inflight[i].outcome
    /\ UNCHANGED <<registryVars, cache, uncached, nCalls, unsafelyVars, captureVars,
                   compiled, scanVars>>

NextConcurrent ==
    \/ \E template \in TemplatesLow, locals \in LocalsLow : Enter(template, locals)
    \/ \E i \in 1..MaxInflight : Deliver(i)

SpecConcurrent == InitConcurrent /\ [][NextConcurrent]_vars

\* what the call returns when it is the only call the engine ever gets
alone(c) == interpolate(EmptyMap, TRUE, c.template, c.locals, NoStack).outcome

\* C18: concurrent interpolate calls on one engine do not interfere: each
\* call, whether the calls are for different templates or are first-time calls
\* with the same cache key, returns what it returns when run alone, and a
\* call that returned leaves one renderer cached under its key.
C18_NoInterference ==
    \A i \in 1..Len(inflight) :
        /\ inflight[i].outcome = alone(inflight[i])
        /\ inflight[i].outcome.kind = "returned" =>
              cacheHas(cache, inflight[i].template,
                       signature(objectKeys(inflight[i].locals)))

-----------------------------------------------------------------------------
(* interpolateUnsafely as a state machine: one render at a time, every await
   of the partial helper a step *)

\* how many interpolateUnsafely calls a behaviour makes on one engine
MaxRenders == 2

N_footer == <<"f", "o", "o", "t", "e", "r">>

N_a == <<"a">>

N_b == <<"b">>

N_c == <<"c">>

N_nope == <<"n", "o", "p", "e">>

K_text == <<"t", "e", "x", "t">>

S_footer == <<"e", "c", "h", "o", " ", "f", "o", "o", "t", "e", "r", ":", " ", "$",
          "{", "t", "e", "x", "t", "}">>

\* a fragment that calls itself
S_a == <<"$", "{", "a", "w", "a", "i", "t", " ", "p", "a", "r", "t", "i", "a",
          "l", "(", "'", "a", "'", ")", "}">>

\* a fragment that calls itself and hands the helper on to the call
S_b == <<"b", "$", "{", "a", "w", "a", "i", "t", " ", "p", "a", "r", "t", "i",
          "a", "l", "(", "'", "b", "'", ",", "{", "p", "a", "r", "t",
          "i", "a", "l", "}", ")", "}">>

\* a fragment whose span is empty
S_c == <<"$", "{", "}">>

Library ==
    << partialContent(N_footer, S_footer, <<K_text>>, <<>>, FALSE, FALSE),
       partialContent(N_a, S_a, <<>>, <<>>, FALSE, FALSE),
       partialContent(N_b, S_b, <<>>, <<>>, FALSE, FALSE),
       partialContent(N_c, S_c, <<>>, <<>>, FALSE, FALSE) >>

RECURSIVE registerAll(_, _, _)
\* the collection after registering the fragments one after the other
registerAll(cat, idx, fs) ==
    IF Len(fs) = 0 THEN [catalog |-> cat, index |-> idx]
    ELSE LET r == register(cat, idx, Head(fs), "none")
         IN  registerAll(r.catalog, r.index, Tail(fs))

Collections == {registerAll(<<>>, <<>>, SubSeq(Library, 1, n)) : n \in {0, 1, 4}}

P_empty == <<>>

P_echo == <<"e", "c", "h", "o", " ", "h", "i">>

P_dollar == <<"c", "o", "s", "t", ":", " ", "$", "5", " ", "{", "x", "}">>

P_user == <<"H", "e", "l", "l", "o", " ", "$", "{", "u", "s", "e", "r", "}", "!">>

P_unbound == <<"$", "{", "n", "o", "p", "e", "}">>

P_emptySpan == <<"$", "{", "}">>

P_footerHi == <<"[", "$", "{", "a", "w", "a", "i", "t", " ", "p", "a", "r", "t", "i",
          "a", "l", "(", "'", "f", "o", "o", "t", "e", "r", "'", ",",
          "{", "t", "e", "x", "t", ":", "'", "h", "i", "'", "}", ")",
          "}", "]">>

P_footerNoArgs == <<"[", "$", "{", "a", "w", "a", "i", "t", " ", "p", "a", "r", "t", "i",
          "a", "l", "(", "'", "f", "o", "o", "t", "e", "r", "'", ")",
          "}", "]">>

P_miss == <<"[", "$", "{", "a", "w", "a", "i", "t", " ", "p", "a", "r", "t", "i",
          "a", "l", "(", "'", "n", "o", "p", "e", "'", ")", "}", "]">>

P_callA == <<"$", "{", "a", "w", "a", "i", "t", " ", "p", "a", "r", "t", "i", "a",
          "l", "(", "'", "a", "'", ")", "}">>

P_callB == <<"$", "{", "a", "w", "a", "i", "t", " ", "p", "a", "r", "t", "i", "a",
          "l", "(", "'", "b", "'", ",", "{", "p", "a", "r", "t", "i",
          "a", "l", "}", ")", "}">>

P_callC == <<"x", "$", "{", "a", "w", "a", "i", "t", " ", "p", "a", "r", "t", "i",
          "a", "l", "(", "'", "c", "'", ")", "}">>

PrimeSources ==
    { P_empty, P_echo, P_dollar, P_user, P_unbound, P_emptySpan, P_footerHi,
      P_footerNoArgs, P_miss, P_callA, P_callB, P_callC }

\* the calls made: every source with interpolation asked for and with the
\* flag left out, some with the flag false
PrimeCalls ==
    {[source |-> src, interpolate |-> f] : src \in PrimeSources, f \in {"true", "undefined"}}
        \cup {[source |-> src, interpolate |-> "false"] : src \in {P_echo, P_user}}

Running == Len(frames) > 0

Top == frames[Len(frames)]

AtEnd(f) == f.i > Len(f.fn.parts)

\* the value a renderer returns at its end: the sum of its operands
returnValue(f) == IF f.hasAcc THEN f.acc ELSE JsUndefined

InitInterp ==
    /\ \E col \in Collections : catalog = col.catalog /\ index = col.index
    /\ op = NoOp /\ nOps = 0
    /\ EngineIdle

\* an error leaves every renderer in flight and reaches the catch block
Unwind(error) ==
    /\ frames' = <<>>
    /\ raised' = error
    /\ result' = catchError(prime.source, error)

\* what is known of a call of the helper
PartialCall(name, how, h, v, depth) ==
    [name |-> name, how |-> how, locals |-> h.locals, accepted |-> h.accepted,
     value |-> v, depth |-> depth, stack |-> h.stack]

skipsInterpolation_Never(p) == FALSE

\* a test that skips only when the flag is false
skipsInterpolation_OnlyFalse(p) == p.interpolate = "false"

\* `if (!interpolate)`: the flag false or left out
skipsInterpolation(p) == p.interpolate # "true"

\* interpolateUnsafely(ctx) up to the first await
CallUnsafely(p) ==
    /\ ~Running
    /\ nCalls < MaxRenders
    /\ nCalls' = nCalls + 1
    /\ prime' = p
    /\ lastPartial' = NoPartialCall
    /\ IF skipsInterpolation(p)
       THEN /\ result' = [status |-> "unmodified", source |-> Str(p.source),
                          error |-> NoError]
            /\ raised' = NoError
            /\ UNCHANGED <<frames, cache>>
       ELSE \E e \in {interpolateEnter(cache, TRUE, p.source, primeLocals, NoStack)} :
                /\ cache' = e.cache
                /\ IF e.kind = "throw"
                   THEN /\ frames' = <<>>
                        /\ raised' = e.error
                        /\ result' = catchError(p.source, e.error)
                   ELSE /\ frames' = <<Frame(p.source, e.fn, primeLocals, <<>>)>>
                        /\ raised' = NoError
                        /\ result' = NoResult
    /\ UNCHANGED <<captureVars, concurrencyVars, registryVars, call, outcome, uncached, scanVars>>

\* the renderer in flight evaluates its next operand, which awaits no helper
EvalPart ==
    /\ Running
    /\ ~AtEnd(Top)
    /\ \E r \in {evalPart(Top.fn, Top.locals, Top.fn.parts[Top.i])} :
           /\ r.kind # "call"
           /\ IF r.kind = "throw"
              THEN Unwind(r.error)
              ELSE /\ frames' = [frames EXCEPT ![Len(frames)] = advance(Top, r.value)]
                   /\ UNCHANGED <<raised, result>>
    /\ UNCHANGED <<captureVars, concurrencyVars, registryVars, cacheVars, nCalls, prime, lastPartial, scanVars>>

\* the renderer in flight calls partial(name, locals)
CallPartial ==
    /\ Running
    /\ ~AtEnd(Top)
    /\ Len(frames) < MaxNest
    /\ \E r \in {evalPart(Top.fn, Top.locals, Top.fn.parts[Top.i])} :
           /\ r.kind = "call"
           /\ \E h \in {partialHelper(catalog, cache, r.name, r.args)} :
                  /\ cache' = h.cache
                  /\ IF h.kind = "throw"
                     THEN /\ Unwind(h.error)
                          /\ lastPartial' = PartialCall(r.name, "threw", h,
                                                        JsUndefined, Len(frames))
                     ELSE IF h.kind = "return"
                     THEN /\ frames' = [frames EXCEPT
                                            ![Len(frames)] = advance(Top, h.value)]
                          /\ lastPartial' = PartialCall(r.name, h.how, h, h.value,
                                                        Len(frames))
                          /\ UNCHANGED <<raised, result>>
                     ELSE /\ frames' = Append(frames, Frame(h.template, h.fn,
                                                            h.locals, r.name))
                          /\ lastPartial' = PartialCall(r.name, "expanding", h,
                                                        JsUndefined, Len(frames))
                          /\ UNCHANGED <<raised, result>>
    /\ UNCHANGED <<captureVars, concurrencyVars, registryVars, call, outcome, uncached, nCalls, prime, scanVars>>

\* the fragment's renderer is at its end: the helper returns its text to the
\* renderer that awaited it
ReturnFromPartial ==
    /\ Len(frames) > 1
    /\ AtEnd(Top)
    /\ LET below == frames[Len(frames) - 1]
       IN  frames' = Append(SubSeq(frames, 1, Len(frames) - 2),
                            advance(below, returnValue(Top)))
    /\ lastPartial' = [name |-> Top.partial, how |-> "interpolated",
                       locals |-> Top.locals, accepted |-> TRUE,
                       value |-> returnValue(Top), depth |-> Len(frames) - 1]
    /\ UNCHANGED <<captureVars, concurrencyVars, registryVars, cacheVars, nCalls, prime, raised, result, scanVars>>

\* the top-level renderer is at its end: lines 421-424
Finish ==
    /\ Len(frames) = 1
    /\ AtEnd(Top)
    /\ frames' = <<>>
    /\ result' = settle(prime.source, returnValue(Top))
    /\ UNCHANGED <<captureVars, concurrencyVars, registryVars, cacheVars, nCalls, prime, raised, lastPartial, scanVars>>

NextInterp ==
    \/ \E p \in PrimeCalls : CallUnsafely(p)
    \/ EvalPart
    \/ CallPartial
    \/ ReturnFromPartial
    \/ Finish

SpecInterp == InitInterp /\ [][NextInterp]_vars

\* a call of interpolateUnsafely has returned
Done == ~Running /\ result.status # "none"

Registered(name) == get(catalog, name) # Undefined

-----------------------------------------------------------------------------
(* Properties of interpolateUnsafely *)

Asked(src) == prime = [source |-> src, interpolate |-> "true"]

Footer == get(catalog, N_footer)

\* C1: a template that holds no ${ span (the empty string included), rendered
\* with interpolate = true, comes back with status "unmodified" and a source
\* equal to the template.
C1_NoSpanUnmodified ==
    (Done /\ prime.interpolate = "true" /\ ~Includes(prime.source, <<"$", "{">>))
        => /\ result.status = "unmodified"
           /\ result.source = Str(prime.source)

\* C2: interpolateUnsafely never throws to its caller: once compiling or
\* evaluating has raised an error, at the top level or inside a partial
\* expansion, no renderer is left in flight and the call has returned status
\* false with that error and the original, unrendered source.
C2_FailClosed ==
    /\ result.status # "thrown"
    /\ raised # NoError
           => /\ ~Running
              /\ result = [status |-> "false", source |-> Str(prime.source),
                           error |-> raised]

\* an error raised while a fragment was being expanded, returned as status false
C2_Witness ==
    /\ Done
    /\ raised.name = "ReferenceError"
    /\ lastPartial.how = "expanding"
    /\ result.status = "false"
    /\ result.source = Str(P_callA)

DiagnosticHead ==
    <<"R", "e", "c", "u", "r", "s", "i", "o", "n", " ", "s", "t", "a", "c",
      "k", " ", "e", "x", "c", "e", "e", "d", "e", "d", " ", "m", "a", "x",
      ":", " ">>

\* C3: fragment `a` calls partial('a') on itself and a template calls it: the
\* render ends with a text that is the recursion diagnostic and names the limit.
C3_RecursionDiagnostic ==
    (Done /\ Asked(P_callA) /\ Registered(N_a))
        => /\ result.status = "mutated"
           /\ result.source.t = "str"
           /\ Includes(result.source.s,
                       DiagnosticHead \o digitsOf(recursionLimit))

R_footerHi ==
    <<"[", "e", "c", "h", "o", " ", "f", "o", "o", "t", "e", "r", ":", " ", "h",
      "i", "]">>

C6_RejectedAsIs ==
    /\ (lastPartial.how = "asIs" /\ ~lastPartial.accepted)
           => /\ Registered(lastPartial.name)
              /\ lastPartial.value
                     = Str(invalidArgsMessage(get(catalog, lastPartial.name),
                                              lastPartial.locals))
    /\ (Done /\ Asked(P_footerNoArgs) /\ Registered(N_footer))
           => /\ raised = NoError
              /\ lastPartial.how = "asIs"
              /\ result.status = "mutated"
              /\ result.source
                     = Str(<<"[">>
                           \o invalidArgsMessage(Footer, localsForPartial(Footer, <<>>))
                           \o <<"]">>)

C6_Witness ==
    /\ Done
    /\ Asked(P_footerNoArgs)
    /\ lastPartial.name = N_footer
    /\ lastPartial.how = "asIs"
    /\ ~lastPartial.accepted
    /\ ~hasKey(lastPartial.locals, K_text)
    /\ result.status = "mutated"

\* C7: the helper called with a name that is not in the collection returns a
\* comment that lists every identity registered at that moment; nothing is
\* raised, the enclosing template renders to its end and the call does not
\* return status false.
C7_NotFoundComment ==
    /\ lastPartial.how = "notFound"
           => /\ ~Registered(lastPartial.name)
              /\ lastPartial.value = Str(notFoundComment(catalog, lastPartial.name))
              /\ \A i \in 1..Len(catalog) :
                     Includes(lastPartial.value.s, catalog[i].identity)
    /\ (Done /\ Asked(P_miss))
           => /\ raised = NoError
              /\ lastPartial.how = "notFound"
              /\ result.status = "mutated"
              /\ result.source
                     = Str(<<"[">> \o notFoundComment(catalog, N_nope) \o <<"]">>)

C7_Witness ==
    /\ Done
    /\ Asked(P_miss)
    /\ Len(catalog) = 4
    /\ lastPartial.name = N_nope
    /\ lastPartial.how = "notFound"
    /\ result.status = "mutated"

-----------------------------------------------------------------------------
(* The capture factories as a state machine: capture calls of one factory,
   every await of captureFactory's capture a step, and renders that read the
   history through the local `captured` *)

\* how many capture calls a behaviour makes on one factory
MaxTasks == 2

\* how many renders a behaviour makes
MaxReads == 2

K_step1 == <<"s", "t", "e", "p", "1">>

K_k2 == <<"k", "2">>

F_out == <<".", "/", "o", "u", "t", ".", "t", "x", "t">>

K_captured == <<"c", "a", "p", "t", "u", "r", "e", "d">>

\* ${captured["step1"].text()}
T_step1 ==
    <<"$", "{">> \o K_captured \o <<"[", "\"">> \o K_step1 \o TextCallSuffix \o <<"}">>

\* the stdout of the operation of the n-th capture call
stdoutOf(n) == <<"o", "u", "t">> \o digitsOf(n)

\* what isCapturable may return to captureFactory's capture
SpecLists ==
    { NotCapturable, Specs(<<>>), Specs(<<MemorySpec(K_step1)>>),
      Specs(<<MemorySpec(K_step1), MemorySpec(K_k2)>>),
      Specs(<<PathSpec(F_out), MemorySpec(K_step1)>>),
      Specs(<<IgnorablePathSpec(F_out)>>) }

\* what isCapturable may return to captureFactorySync's capture
SingleSpecs ==
    { NotCapturable, Specs(<<MemorySpec(K_step1)>>), Specs(<<MemorySpec(K_k2)>>),
      Specs(<<PathSpec(F_out)>>), Specs(<<IgnorablePathSpec(F_out)>>) }

Factories ==
    { [kind |-> k, onCapture |-> c] :
          k \in {"async", "sync"}, c \in {"typical", "supplied"} }
        \cup {[kind |-> "async", onCapture |-> "gitignorable"]}

\* captureFactory(opts) or captureFactorySync(opts) was called: history = {}
InitCapture ==
    /\ RegistryIdle
    /\ ScanIdle
    /\ cache = EmptyMap
    /\ call = NoCall
    /\ outcome = NoOutcome
    /\ uncached = NoOutcome
    /\ nCalls = 0
    /\ prime = NoPrime
    /\ frames = <<>>
    /\ result = NoResult
    /\ raised = NoError
    /\ lastPartial = NoPartialCall
    /\ compiled = "none"
    /\ inflight = <<>>
    /\ factory \in Factories
    /\ CaptureIdle

\* capture(ctx, op) is called and runs to its first await (captureFactory) or
\* to its end (captureFactorySync); specs is what isCapturable returns
Capture(specs, fails) ==
    /\ Len(tasks) < MaxTasks
    /\ specs \in (IF factory.kind = "async" THEN SpecLists ELSE SingleSpecs)
    /\ \E t \in {Len(tasks) + 1} : \E cap \in {Captured(t, stdoutOf(t))} :
          IF ~capturable(specs)
          THEN /\ tasks' = Append(tasks, [specs |-> specs, i |-> 0, cap |-> NoCaptured,
                                          pc |-> completed(factory), io |-> "none"])
               /\ log' = Append(log, Event(t, "isCapturable", 0, NoCaptured))
               /\ history' = history
               /\ fsCalls' = fsCalls
          ELSE IF specs.list = <<>>
          THEN /\ tasks' = Append(tasks, [specs |-> specs, i |-> 0, cap |-> cap,
                                          pc |-> completed(factory), io |-> "none"])
               /\ log' = log \o <<Event(t, "isCapturable", 0, NoCaptured),
                                  Event(t, "prepareCaptured", 0, cap)>>
               /\ history' = history
               /\ fsCalls' = fsCalls
          ELSE \E r \in {onCaptureCall(factory, specs.list[1], cap, history, fails)} :
               /\ tasks' = Append(tasks,
                                  afterOnCapture(factory,
                                                 [specs |-> specs, i |-> 0, cap |-> cap,
                                                  pc |-> "running", io |-> "none"],
                                                 1, r))
               /\ log' = log \o <<Event(t, "isCapturable", 0, NoCaptured),
                                  Event(t, "prepareCaptured", 0, cap)>>
                             \o onCaptureEvents(factory, t, 1, cap, r)
               /\ history' = r.history
               /\ fsCalls' = fsCalls \o callEffects(factory, specs.list[1], cap, fails)
    /\ UNCHANGED <<factory, unhandled, registryVars, cacheVars, nCalls, unsafelyVars,
                   concurrencyVars, scanVars>>

\* the file-system effects of the handler call the task waits for, once its
\* promise has resolved
settledOf(fac, task) ==
    IF task.io = "pending" THEN settledEffects(fac, task.specs.list[task.i], task.cap)
    ELSE <<>>

\* the promise captureFactory's capture awaits settles and the loop goes on:
\* a failed write (ok false) rejects the call; otherwise onCapture is called
\* for the next spec, or the loop and the call end
Resume(t, ok, fails) ==
    /\ t \in 1..Len(tasks)
    /\ tasks[t].pc = "awaiting"
    /\ ok \/ tasks[t].io = "pending"
    /\ \E task \in {tasks[t]} :
          IF ~ok
          THEN /\ tasks' = [tasks EXCEPT ![t].pc = "rejected", ![t].io = "none"]
               /\ log' = Append(log, Event(t, "onCapture.failed", task.i, task.cap))
               /\ history' = history
               /\ fsCalls' = fsCalls
          ELSE IF task.i = Len(task.specs.list)
          THEN /\ tasks' = [tasks EXCEPT ![t].pc = "resolved", ![t].io = "none"]
               /\ log' = Append(log, Event(t, "onCapture.end", task.i, task.cap))
               /\ history' = history
               /\ fsCalls' = fsCalls \o settledOf(factory, task)
          ELSE \E r \in {onCaptureCall(factory, task.specs.list[task.i + 1], task.cap,
                                       history, fails)} :
               /\ tasks' = [tasks EXCEPT ![t] = afterOnCapture(factory, task, task.i + 1, r)]
               /\ log' = Append(log, Event(t, "onCapture.end", task.i, task.cap))
                             \o onCaptureEvents(factory, t, task.i + 1, task.cap, r)
               /\ history' = r.history
               /\ fsCalls' = fsCalls \o settledOf(factory, task)
                           \o callEffects(factory, task.specs.list[task.i + 1],
                                          task.cap, fails)
    /\ UNCHANGED <<factory, unhandled, registryVars, cacheVars, nCalls, unsafelyVars,
                   concurrencyVars, scanVars>>

\* the promise typicalOnCapture returned to captureFactorySync's capture,
\* which nothing awaits, settles: a failed write is an unhandled rejection
SettleDropped(t, ok) ==
    /\ t \in 1..Len(tasks)
    /\ tasks[t].pc = "returned"
    /\ tasks[t].io = "pending"
    /\ tasks' = [tasks EXCEPT ![t].io = "none"]
    /\ IF ok
       THEN /\ fsCalls' = fsCalls \o settledOf(factory, tasks[t])
            /\ UNCHANGED <<log, unhandled>>
       ELSE /\ log' = Append(log, Event(t, "onCapture.failed", tasks[t].i, tasks[t].cap))
            /\ unhandled' = Append(unhandled, t)
            /\ fsCalls' = fsCalls
    /\ UNCHANGED <<factory, history, registryVars, cacheVars, nCalls, unsafelyVars,
                   concurrencyVars, scanVars>>

\* the locals of a render that exposes the factory's history as `captured`
capturedLocals == <<[k |-> K_captured, v |-> HistoryRef]>>

\* interpolate("${captured[\"step1\"].text()}", {captured: history}) on both
\* engines
Render ==
    /\ nCalls < MaxReads
    /\ \E rc \in {interpolate(cache, TRUE, T_step1, capturedLocals, NoStack)} :
          /\ cache' = rc.cache
          /\ outcome' = rc.outcome
    /\ uncached' = interpolate(EmptyMap, FALSE, T_step1, capturedLocals, NoStack).outcome
    /\ compiled' = compileStep(cache, T_step1, capturedLocals, NoStack)
    /\ call' = [template |-> T_step1, locals |-> capturedLocals, stack |-> NoStack]
    /\ nCalls' = nCalls + 1
    /\ log' = Append(log, Event(0, "render", 0, NoCaptured))
    /\ UNCHANGED <<factory, history, tasks, unhandled, fsCalls, registryVars, unsafelyVars,
                   inflight, scanVars>>

NextCapture ==
    \/ \E specs \in SpecLists \cup SingleSpecs, fails \in BOOLEAN : Capture(specs, fails)
    \/ \E t \in 1..MaxTasks, ok, fails \in BOOLEAN : Resume(t, ok, fails)
    \/ \E t \in 1..MaxTasks, ok \in BOOLEAN : SettleDropped(t, ok)
    \/ Render

SpecCapture == InitCapture /\ [][NextCapture]_vars

-----------------------------------------------------------------------------
(* Claims about capture *)

\* the spec a trace entry of an onCapture call is about
specOf(e) == tasks[e.task].specs.list[e.spec]

\* the positions in the trace of the onCapture calls that stored under key
Writes(key) ==
    { j \in 1..Len(log) :
          /\ log[j].ev = "onCapture.start"
          /\ specOf(log[j]).nature = "memory"
          /\ specOf(log[j]).key = key }

\* the adapter of the write to key that was performed last
LastWrite(key) ==
    tasks[log[CHOOSE j \in Writes(key) : \A i \in Writes(key) : i <= j].task].cap

\* C13: once a capture has stored an operation's stdout under the memory key
\* "step1", every later render of ${captured["step1"].text()} with the
\* history bound as `captured` gives exactly the stdout stored last, on the
\* engine with the cache and on the engine without it: the first stored
\* value at first, the newer one after a later capture overwrote the key.
C13_RendersLatestCapture ==
    [][(nCalls' = nCalls + 1 /\ Writes(K_step1) # {}) =>
          /\ outcome' = Returned(Str(LastWrite(K_step1).text))
          /\ uncached' = outcome']_vars

\* C13 witness: step1 was captured, rendered, captured again by a second
\* call, and the render after that, served by the cached renderer, gave the
\* second stdout
C13_Witness ==
    /\ Len(log) >= 4
    /\ log[Len(log)].ev = "render"
    /\ compiled = "hit"
    /\ outcome = Returned(Str(stdoutOf(2)))
    /\ uncached = outcome
    /\ \E a, b, c \in 1..Len(log) :
          /\ a < b /\ b < c
          /\ a \in Writes(K_step1) /\ log[a].task = 1
          /\ log[b].ev = "render"
          /\ c \in Writes(K_step1) /\ log[c].task = 2

\* what the trace of the t-th capture call holds when the call ran to its end
ExpectedTrace(t) ==
    IF ~tasks[t].specs.given THEN <<Event(t, "isCapturable", 0, NoCaptured)>>
    ELSE [j \in 1..(2 + 2 * Len(tasks[t].specs.list)) |->
             IF j = 1 THEN Event(t, "isCapturable", 0, NoCaptured)
             ELSE IF j = 2 THEN Event(t, "prepareCaptured", 0, tasks[t].cap)
             ELSE IF j % 2 = 1 THEN Event(t, "onCapture.start", (j - 1) \div 2, tasks[t].cap)
             ELSE Event(t, "onCapture.end", (j - 1) \div 2, tasks[t].cap)]

\* the calls the t-th capture call made so far, in the order it made them
TraceOf(t) == SelectSeq(log, LAMBDA e : e.task = t /\ e.ev # "onCapture.failed")

\* every capture call made its calls in the expected order, each onCapture
\* call ending before the next starts, and all of them when it ran to its end
TracesInOrder ==
    \A t \in 1..Len(tasks) :
        /\ Len(TraceOf(t)) <= Len(ExpectedTrace(t))
        /\ TraceOf(t) = SubSeq(ExpectedTrace(t), 1, Len(TraceOf(t)))
        /\ tasks[t].pc \in {"resolved", "returned"} => TraceOf(t) = ExpectedTrace(t)

\* C14: capture calls isCapturable first; when that returns false, neither
\* prepareCaptured nor onCapture is called and the history is unchanged; when
\* it returns specs, prepareCaptured is called once and then onCapture once
\* per spec, in list order, with that adapter, each call completing before
\* the next starts.
C14_CaptureOrder ==
    [][/\ TracesInOrder'
       /\ (Len(tasks') = Len(tasks) + 1 /\ ~tasks'[Len(tasks')].specs.given) =>
              history' = history]_vars

\* C14 witness: one call was skipped by isCapturable and another ran to its
\* end over a list of two specs
C14_Witness ==
    /\ \E t \in 1..Len(tasks) : ~tasks[t].specs.given /\ Len(TraceOf(t)) = 1
    /\ \E t \in 1..Len(tasks) :
          /\ tasks[t].pc = "resolved"
          /\ Len(tasks[t].specs.list) = 2
          /\ Len(TraceOf(t)) = 6

\* C15: under the default onCapture, a memory spec with key k sets
\* history[k] to the new adapter, replacing an earlier entry, and leaves every
\* other key as it was; a path spec leaves the history as it was.
C15_DefaultOnCapture ==
    [][factory.onCapture = "typical" =>
          \A j \in (Len(log) + 1)..Len(log') :
              log'[j].ev = "onCapture.start" =>
                  IF tasks'[log'[j].task].specs.list[log'[j].spec].nature = "memory"
                  THEN /\ DOMAIN history' =
                              DOMAIN history
                                  \cup {tasks'[log'[j].task].specs.list[log'[j].spec].key}
                       /\ \A k \in DOMAIN history' :
                              history'[k] =
                                  IF k = tasks'[log'[j].task].specs.list[log'[j].spec].key
                                  THEN tasks'[log'[j].task].cap
                                  ELSE history[k]
                  ELSE history' = history]_vars

\* C15 witness: under the default onCapture the second call replaced the
\* first call's entry for step1 while the first call's entry for k2 stayed
C15_Witness ==
    /\ factory.onCapture = "typical"
    /\ Cardinality(Writes(K_step1)) = 2
    /\ mapHas(history, K_step1) /\ history[K_step1].id = 2
    /\ mapHas(history, K_k2) /\ history[K_k2].id = 1

\* C16: a failure raised while persisting a capture is never swallowed: the
\* capture call whose onCapture failed fails to its caller (its promise is
\* rejected, or the synchronous call throws), for both factories, with the
\* default onCapture and with a supplied one.
C16_FailurePropagates ==
    \A j \in 1..Len(log) :
        log[j].ev = "onCapture.failed" => tasks[log[j].task].pc \in {"rejected", "threw"}

\* C17: when capture calls run concurrently on one factory, after all of them
\* completed every memory key written holds the adapter of the write to it
\* that was performed last, and there is no other key: writes to distinct
\* keys do not interfere and none is lost.
C17_LastWriteWins ==
    (/\ factory.onCapture = "typical"
     /\ tasks # <<>>
     /\ \A t \in 1..Len(tasks) : tasks[t].pc # "awaiting") =>
        /\ DOMAIN history \subseteq {K_step1, K_k2}
        /\ \A k \in {K_step1, K_k2} :
              IF Writes(k) = {} THEN ~mapHas(history, k)
              ELSE mapHas(history, k) /\ history[k] = LastWrite(k)

\* C17 witness: two calls ran concurrently (the second began before the first
\* ended) and both completed; step1, written by both, holds the adapter of
\* the first call, whose write came last, and k2 holds the second call's
C17_Witness ==
    /\ factory = [kind |-> "async", onCapture |-> "typical"]
    /\ Len(tasks) = 2
    /\ \A t \in 1..2 : tasks[t].pc = "resolved"
    /\ \E a, b \in 1..Len(log) :
          /\ a < b
          /\ log[a].task = 2 /\ log[a].ev = "isCapturable"
          /\ log[b].task = 1 /\ log[b].ev = "onCapture.start"
    /\ Cardinality(Writes(K_step1)) = 2
    /\ mapHas(history, K_step1) /\ history[K_step1].id = 1
    /\ mapHas(history, K_k2) /\ history[K_k2].id = 2

-----------------------------------------------------------------------------
(* Claims about interpolateUnsafely with interpolation switched off *)

\* C20: when the prime context's interpolate flag is false, interpolateUnsafely
\* returns {status: "unmodified", source} with the source as given, without
\* compiling the template (no renderer is made or run), without adding to
\* the renderer cache and without consulting the partial collection (no call
\* of the partial helper).
C20_FlagFalseUnmodified ==
    [][(nCalls' = nCalls + 1 /\ prime'.interpolate = "false") =>
          /\ result' = [status |-> "unmodified", source |-> Str(prime'.source),
                        error |-> NoError]
          /\ raised' = NoError
          /\ frames' = <<>>
          /\ cache' = cache
          /\ lastPartial' = NoPartialCall
          /\ UNCHANGED <<catalog, index>>]_vars

\* C20 witness: after a render that filled the cache, a source holding a
\* ${...} span was passed with interpolate false and came back unmodified
C20_Witness ==
    /\ nCalls = 2
    /\ prime.interpolate = "false"
    /\ prime.source = P_user
    /\ result.status = "unmodified"
    /\ result.source = Str(P_user)
    /\ cache # EmptyMap
    /\ ~mapHas(cache, P_user)

-----------------------------------------------------------------------------
(* Claims about the recursion stack *)

\* C21: each nested partial expansion pushes one frame onto the recursion
\* stack it was called with: the stack handed to the engine for a partial
\* expanded at nesting depth d holds d frames, and no partial content is
\* rendered at a nesting depth greater than the limit (the renderers in
\* flight are the prime one and at most recursionLimit nested ones).
C21_StackTracksDepth ==
    /\ lastPartial.how = "expanding" =>
          /\ lastPartial.stack.defined
          /\ Len(lastPartial.stack.frames) = lastPartial.depth
    /\ Len(frames) <= recursionLimit + 1

-----------------------------------------------------------------------------
(* Claims about the recursion guard of interpolate *)

\* the templates of the frames of a stack, joined by " -> " with the arrow
\* character
ChainText(stack) ==
    Join([i \in 1..Len(stack.frames) |-> stack.frames[i].template],
         <<" ", RightArrow, " ">>)

\* C22: interpolate called with a recursion stack renders the template
\* normally (as it does without a stack) when the stack length is at most the
\* limit; when the length is greater it returns, without compiling, caching
\* or evaluating the template, a diagnostic that names the limit and lists
\* the templates of the stacked frames in stack order.
C22_RecursionGuard ==
    [][(nCalls' = nCalls + 1 /\ call'.stack.defined) =>
          IF Len(call'.stack.frames) <= recursionLimit
          THEN /\ outcome' = interpolate(cache, TRUE, call'.template, call'.locals,
                                         NoStack).outcome
               /\ cache' = interpolate(cache, TRUE, call'.template, call'.locals,
                                       NoStack).cache
               /\ compiled' # "none"
          ELSE /\ outcome' = Returned(Str(DiagnosticHead \o digitsOf(recursionLimit)
                                            \o <<" ", "(">> \o ChainText(call'.stack)
                                            \o <<")">>))
               /\ uncached' = outcome'
               /\ cache' = cache
               /\ compiled' = "none"]_vars

\* C22 witness: a call with a stack of exactly recursionLimit frames rendered
\* x${a}y
C22_Witness ==
    /\ call.stack.defined
    /\ Len(call.stack.frames) = recursionLimit
    /\ call.template = T_xay
    /\ compiled = "compiled"
    /\ outcome = Returned(Str(<<"x", "s", "y">>))

-----------------------------------------------------------------------------
(* Claims about calls with names that cannot be bound *)

\* whether the names of the locals include one that is no identifier or one
\* equal to the context-binding name
BadNames(locals) ==
    \E i \in 1..Len(locals) : ~IDENT_RX(locals[i].k) \/ locals[i].k = ctxName

\* the renderers the cache holds, with their keys
Renderers(c) ==
    UNION { UNION { { <<t, n, sig, c[t][n][sig]>> : sig \in DOMAIN c[t][n] } :
                        n \in DOMAIN c[t] } : t \in DOMAIN c }

\* C23: an interpolate call (not stopped by the recursion guard) whose local
\* names include an invalid identifier, or a name equal to the
\* context-binding name, fails with a descriptive error and stores no
\* renderer in the cache; a later call with the same template and names
\* fails the same way, and a later call with valid names renders as if the
\* failed call had never happened (as on an engine without a cache).
C23_BadNamesFail ==
    [][(nCalls' = nCalls + 1 /\ ~stackExceeded(call'.stack)) =>
          /\ BadNames(call'.locals) =>
                /\ outcome'.kind = "thrown"
                /\ outcome'.error.name \in {"InvalidLocalKey", "KeyConflictsWithCtxName"}
                /\ outcome' = uncached'
                /\ Renderers(cache') = Renderers(cache)
          /\ ~BadNames(call'.locals) => outcome' = uncached']_vars


(***************************************************************************)
(* splitTemplateIntoParts on templates whose expressions hold quotes,      *)
(* braces and nested template literals.                                    *)
(***************************************************************************)
\* an identifier:  a
E_ident == <<"a">>

\* an object literal: balanced braces:  {k:1}
E_object == <<"{", "k", ":", "1", "}">>

\* a closing brace in single quotes:  '}'
E_single == <<"'", "}", "'">>

\* an opening brace in double quotes:  "{"
E_double == <<"\"", "{", "\"">>

\* a closing brace in backtick quotes:  `}`
E_tick == <<Backtick, "}", Backtick>>

\* an escaped quote, then a closing brace, in single quotes:  '\'}'
E_escaped == <<"'", "\\", "'", "}", "'">>

\* a span nested in a backtick-quoted segment:  `${a}`
E_nested == <<Backtick, "$", "{", "a", "}", Backtick>>

\* a nested span holding an object literal:  `${{k:1}}`
E_nestedObject == <<Backtick, "$", "{", "{", "k", ":", "1", "}", "}", Backtick>>

\* a nested span holding a quoted opening brace:  `${'{'}`
E_nestedQuote == <<Backtick, "$", "{", "'", "{", "'", "}", Backtick>>

\* a nested span holding a backtick-quoted closing brace:  `a${`}`}b`
E_nestedTick == <<Backtick, "a", "$", "{", Backtick, "}", Backtick, "}", "b", Backtick>>

ScanExprs ==
    {E_ident, E_object, E_single, E_double, E_tick,
     E_escaped, E_nested, E_nestedObject, E_nestedQuote, E_nestedTick}

ScanPrefixes == {<<>>, <<"x">>, <<"{">>}

LitSeg(text) == [type |-> "lit", value |-> text]

ExprSeg(text) == [type |-> "expr", value |-> text]

\* what may follow the span: nothing, literal text (with a brace of its own),
\* or a second span
ScanTails ==
    {<<>>, <<LitSeg(<<"y">>)>>, <<LitSeg(<<"}", "z">>)>>, <<ExprSeg(<<"b">>)>>,
     <<LitSeg(<<" ">>), ExprSeg(<<"b">>)>>}

\* a template as the author wrote it: its literal segments and expression spans
ScanLayouts ==
    {(IF pre = <<>> THEN <<>> ELSE <<LitSeg(pre)>>) \o <<ExprSeg(e)>> \o tail :
        pre \in ScanPrefixes, e \in ScanExprs, tail \in ScanTails}

\* the source text of a segment
segText(seg) ==
    IF seg.type = "lit" THEN seg.value ELSE <<"$", "{">> \o seg.value \o <<"}">>

RECURSIVE textOfSegs(_)
textOfSegs(segs) ==
    IF segs = <<>> THEN <<>> ELSE segText(Head(segs)) \o textOfSegs(Tail(segs))

\* splitTemplateIntoParts(src), on its own
Scan(layout) ==
    /\ scanInput' = textOfSegs(layout)
    /\ scanParts' = splitTemplateIntoParts(textOfSegs(layout))
    /\ scanOutcome' = NoOutcome
    /\ UNCHANGED <<registryVars, cacheVars, nCalls, unsafelyVars, captureVars,
                   concurrencyVars>>

\* the text after a `${` that no brace closes: nothing, an identifier of one
\* or two letters, a number, an opening brace, an opening quote
UnclosedBodies ==
    {<<>>, <<"a">>, <<"a", "b">>, <<"1", "2">>, <<"{", "a">>, <<"'", "a">>}

UnclosedTemplates ==
    {pre \o <<"$", "{">> \o body :
        pre \in {<<>>, <<"x">>, <<"$", "{", "a", "}">>}, body \in UnclosedBodies}

ScanLocals ==
    { <<>>,
      <<[k |-> K_a, v |-> Num(1)]>>,
      <<[k |-> K_a, v |-> Str(<<"s">>)], [k |-> <<"a", "b">>, v |-> Num(2)]>> }

\* interpolate(template, locals) on a fresh engine: compile, then run
CompileAndRun(template, locals) ==
    /\ scanInput' = template
    /\ scanParts' = splitTemplateIntoParts(template)
    /\ scanOutcome' = interpolate(EmptyMap, FALSE, template, locals, NoStack).outcome
    /\ UNCHANGED <<registryVars, cacheVars, nCalls, unsafelyVars, captureVars,
                   concurrencyVars>>

InitScan == RegistryIdle /\ EngineIdle

NextScan ==
    \/ \E layout \in ScanLayouts : Scan(layout)
    \/ \E template \in UnclosedTemplates, locals \in ScanLocals :
          CompileAndRun(template, locals)

SpecScan == InitScan /\ [][NextScan]_vars

\* the layout the scanned template was written from
LayoutOf(text) == CHOOSE layout \in ScanLayouts : textOfSegs(layout) = text

\* C24: for every template the scanner ends each expression span at the brace
\* that matches its opening brace, whatever quotes, braces and nested spans
\* the expression holds: the parts are the template's own literal segments and
\* expression spans, and put back together they give the template
C24_SpansEndAtMatchingBrace ==
    (scanOutcome.kind = "none" /\ scanInput # <<>>) =>
        /\ scanParts = LayoutOf(scanInput)
        /\ textOfSegs(scanParts) = scanInput

\* C25: a template with a `${` that no brace closes fails compilation with an
\* error: it is not rendered, and gives no value
C25_UnclosedFailsCompile ==
    (scanOutcome.kind # "none" /\ scanInput \in UnclosedTemplates) =>
        /\ scanOutcome.kind = "thrown"
        /\ scanOutcome.error.name = "SyntaxError"

RECURSIVE concatText(_, _, _)
\* the literal segments and the text of each expression's value, from part i on
concatText(fn, locals, i) ==
    IF i > Len(fn.parts) THEN <<>>
    ELSE toString(evalPart(fn, locals, fn.parts[i]).value) \o concatText(fn, locals, i + 1)

\* C26: a render that returns gives a string, the left-to-right concatenation
\* of the template's literal segments and the text of each expression's value,
\* also when the template starts with or consists only of expression spans
C26_OutputIsConcatenation ==
    (nCalls > 0 /\ outcome.kind = "returned" /\ ~stackExceeded(call.stack)) =>
        /\ outcome.value.t = "str"
        /\ outcome.value.s =
              concatText([parts |-> splitTemplateIntoParts(call.template),
                          keys |-> objectKeys(call.locals)], call.locals, 1)

\* the globs of the fragments now in the catalog that have an injection, as
\* <<identity, glob>>
InjectedGlobs ==
    UNION {{<<catalog[i].identity, normalize(catalog[i].injection.globs[j])>> :
               j \in 1..Len(catalog[i].injection.globs)} :
           i \in {k \in 1..Len(catalog) : catalog[k].injection.defined}}

\* C27: after any sequence of register calls the index holds exactly one entry
\* per glob of every fragment now in the collection that has an injection, and
\* none for a fragment that was replaced, ignored or rejected; so
\* findInjectableForPath returns only a fragment that is the one now registered
\* under its identity and that has an injection
C27_IndexMatchesCatalog ==
    /\ \A i, j \in 1..Len(catalog) : catalog[i].identity = catalog[j].identity => i = j
    /\ Len(index) = Cardinality(InjectedGlobs)
    /\ \A ig \in InjectedGlobs :
          Cardinality({i \in 1..Len(index) :
                          /\ index[i].identity = ig[1]
                          /\ index[i].re = toRegex(ig[2])
                          /\ index[i].wc = wildcardCount(ig[2])
                          /\ index[i].len = Len(ig[2])}) = 1
    /\ (op.kind = "register" /\ op.outcome # "registered") =>
          catalog = op.catalogBefore /\ index = op.indexBefore
    /\ (op.kind = "register" /\ op.outcome = "registered") =>
          get(catalog, op.fragment.identity) = op.fragment
    /\ (op.kind = "find" /\ op.hit # Undefined) =>
          /\ op.hit.injection.defined
          /\ get(catalog, op.hit.identity) = op.hit

\* a fragment with an injection was replaced by one with other globs, and the
\* index holds the new fragment's two entries
C27_Witness ==
    /\ op.kind = "register" /\ op.outcome = "registered"
    /\ get(op.catalogBefore, op.fragment.identity).injection.defined
    /\ get(op.catalogBefore, op.fragment.identity) # op.fragment
    /\ Len(op.indexBefore) >= 2
    /\ Len(op.fragment.injection.globs) = 2
    /\ Len(index) = Len(op.indexBefore) + 1

\* the entries of the index that match the path and that no matching entry
\* beats: the lowest wildcard weight, then the longest glob
BestEntries(idx, path) ==
    LET M == {i \in 1..Len(idx) : regexTest(idx[i].re, normalize(path))}
    IN  {i \in M : \A j \in M :
            \/ idx[i].wc < idx[j].wc
            \/ idx[i].wc = idx[j].wc /\ idx[i].len >= idx[j].len}

\* where the identity stands in the order the identities were first registered
registeredAt(cat, identity) == CHOOSE i \in 1..Len(cat) : cat[i].identity = identity

\* the lookup gave the fragment of the best entry whose identity was registered first
FirstRegisteredWins(o, cat, idx) ==
    (o.kind = "find" /\ BestEntries(idx, o.path) # {}) =>
        /\ o.hit # Undefined
        /\ \E i \in BestEntries(idx, o.path) : idx[i].identity = o.hit.identity
        /\ \A i \in BestEntries(idx, o.path) :
              registeredAt(cat, o.hit.identity) <= registeredAt(cat, idx[i].identity)

\* C28: when index entries that match a path have the same wildcard weight and
\* the same glob length, findInjectableForPath returns the fragment whose
\* identity was registered first; a second lookup of the same path on the
\* unchanged collection returns the same fragment
C28_StableTieBreak ==
    [][/\ FirstRegisteredWins(op', catalog', index')
       /\ (op.kind = "find" /\ op'.kind = "find" /\ op'.path = op.path) =>
             op'.hit = op.hit]_vars

\* a lookup found two best entries of different identities, the one registered
\* first being the one with the "?" glob
C28_Witness ==
    /\ op.kind = "find"
    /\ \E i, j \in BestEntries(index, op.path) :
          /\ index[i].identity # index[j].identity
          /\ index[i].wc = index[j].wc /\ index[i].len = index[j].len
    /\ op.hit.identity = <<"w", "4">>
    /\ Len(catalog) = 3

\* after every write of a path spec's file: the ignore rule for the path comes
\* next when the spec's gitignore is set, and no rule comes when it is not
RuleFollowsWrite ==
    \A i \in 1..Len(fsCalls) :
        /\ fsCalls[i].ev = "writeTextFile" =>
              IF fsCalls[i].spec.gitignore
              THEN /\ i < Len(fsCalls)
                   /\ fsCalls[i + 1].ev = "gitignore"
                   /\ fsCalls[i + 1].spec = fsCalls[i].spec
                   /\ fsCalls[i + 1].path = SliceFrom(fsCalls[i].path, 2)
              ELSE i = Len(fsCalls) \/ fsCalls[i + 1].ev # "gitignore"
        /\ fsCalls[i].ev = "gitignore" => i > 1 /\ fsCalls[i - 1].ev = "writeTextFile"

\* C29: under the default onCapture of captureFactory, a path spec's captured
\* text is written to its path and, when the spec's gitignore flag is set, an
\* ignore rule for the path is registered after the write; when the flag is
\* not set no rule is registered
C29_DefaultRegistersIgnoreRule ==
    (factory.kind = "async" /\ factory.onCapture = "typical") =>
        /\ RuleFollowsWrite
        /\ \A t \in 1..Len(tasks) :
              (tasks[t].pc = "resolved" /\ tasks[t].specs.given) =>
                  \A i \in 1..Len(tasks[t].specs.list) :
                      tasks[t].specs.list[i].nature = "relFsPath" =>
                          \E j \in 1..Len(fsCalls) :
                              /\ fsCalls[j].ev = "writeTextFile"
                              /\ fsCalls[j].path = tasks[t].specs.list[i].fsPath
                              /\ fsCalls[j].cap = tasks[t].cap.id

=============================================================================
